---- MODULE Spec2Model ----
(***************************************************************************)
(* State-machine model of the event-routing core of SmartAssistant:        *)
(* core.handle_event (src/core.py) together with the intent executor of    *)
(* the Telegram webhook (src/main.py).                                     *)
(*                                                                         *)
(* Python strings typed by the user or used as identifiers are sequences   *)
(* of one-character strings; None / a non-integer value is NoneVal.        *)
(***************************************************************************)
EXTENDS Integers, Sequences, FiniteSets, TLC

\* ------------------------------------------------------------------ bounds
MaxSeq == 2          \* in-memory notes + tasks created in one behaviour

\* ------------------------------------------------------------ input sets
NoneVal == 0 - 1

Chats == {1, 2}
Mids == {7}          \* message ids of task-list messages
SendMids == {7}      \* message ids the transport assigns to a sent list

\* ----------------------------------------------------------- str helpers
IsSpace(c) == c = " "

Digits == {"0", "1", "2", "3", "4", "5", "6", "7", "8", "9"}

DigitVal(c) ==
  CASE c = "0" -> 0 [] c = "1" -> 1 [] c = "2" -> 2 [] c = "3" -> 3
    [] c = "4" -> 4 [] c = "5" -> 5 [] c = "6" -> 6 [] c = "7" -> 7
    [] c = "8" -> 8 [] OTHER -> 9

DigitChar(d) ==
  CASE d = 0 -> "0" [] d = 1 -> "1" [] d = 2 -> "2" [] d = 3 -> "3"
    [] d = 4 -> "4" [] d = 5 -> "5" [] d = 6 -> "6" [] d = 7 -> "7"
    [] d = 8 -> "8" [] OTHER -> "9"

RECURSIVE LStrip(_)
LStrip(s) ==
  IF s = <<>> THEN s
  ELSE IF IsSpace(Head(s)) THEN LStrip(Tail(s)) ELSE s

RECURSIVE RStrip(_)
RStrip(s) ==
  IF s = <<>> THEN s
  ELSE IF IsSpace(s[Len(s)]) THEN RStrip(SubSeq(s, 1, Len(s) - 1)) ELSE s

\* str.strip()
Strip(s) == RStrip(LStrip(s))

\* str.isdigit()
IsDigitStr(s) == s # <<>> /\ \A i \in 1..Len(s) : s[i] \in Digits

\* int(s) for a digit string
RECURSIVE ToInt(_)
ToInt(s) ==
  IF s = <<>> THEN 0
  ELSE 10 * ToInt(SubSeq(s, 1, Len(s) - 1)) + DigitVal(s[Len(s)])

\* str(n) for n >= 0
RECURSIVE DecStr(_)
DecStr(n) ==
  IF n < 10 THEN <<DigitChar(n)>>
  ELSE DecStr(n \div 10) \o <<DigitChar(n % 10)>>

\* s.startswith("/")
StartsWithSlash(s) == Len(s) >= 1 /\ s[1] = "/"

IsInt(x) == x # NoneVal

\* ------------------------------------------------------------------ state
VARIABLES
  notes,         \* AppState.notes: chat_id -> list of Note
  tasks,         \* AppState.tasks: chat_id -> list of Task
  seq,           \* AppState.seq
  render_cache,  \* AppState.render_cache: <<chat_id, message_id>> -> payload
  pending,       \* AppState.pending: chat_id -> pending interaction
  env,           \* process environment read by os.getenv
  ev,            \* the event of the latest handle_event call
  out,           \* the intent list that call returned
  raised,        \* TRUE when that call raised instead of returning
  calls,         \* backend operations that call performed, in order
  answers,       \* what the collaborators answered during that call
  sent,          \* what the chat transport answered while the intents were executed
  pc,            \* webhook position: "idle", or "exec" after handle_event returned
  hist,          \* history: the latest calls (of handle_event, or of the job queue), newest last
  gate,          \* environment of the webhook gates (secret, owner, strict mode)
  upd,           \* the request the webhook received last: header, sender, callback id
  resp,          \* the webhook's response to it and the transport calls it made
  jobs,          \* table job_queue, in creation order
  wk,            \* the workers' position in claim_next_job and the job each holds
  now,           \* the database clock
  req,           \* position of each in-flight webhook coroutine
  loop,          \* the coroutine the event loop is running (0: none)
  brief          \* the latest result of build_daily_brief_text

\* AppState, environment and the latest handle_event call
corevars == <<notes, tasks, seq, render_cache, pending, env, ev, out, raised, calls, answers, sent, pc>>

hookvars == <<gate, upd, resp>>

jobvars == <<jobs, wk, now>>

reqvars == <<req, loop>>

\* what the specifications of handle_event leave alone
extvars == <<hist, hookvars, jobvars, reqvars, brief>>

vars == <<notes, tasks, seq, render_cache, pending, env, ev, out, raised, calls, answers, sent, pc,
          hist, gate, upd, resp, jobs, wk, now, req, loop, brief>>

\* ------------------------------------------------------------ identifiers
P1 == <<"p", "1">>
P2 == <<"p", "2">>
NewPageId == <<"p", "9">>      \* id a backend create call returns
NotePrefix == <<"n", "o", "t", "e">>
TaskPrefix == <<"t", "a", "s", "k">>

\* faulty variant: the id leaves the counter out
FormatIdNoSeq(prefix, n) == prefix \o <<"_">>

\* f"{prefix}_{state.seq}"
FormatId(prefix, n) == prefix \o <<"_">> \o DecStr(n)

\* ----------------------------------------------------------------- inputs
\* message texts the user may send
Texts ==
  { <<>>, <<"0">>, <<"1">>, <<"2">>, <<"3">>, <<"a">>, <<" ", "1">>, <<"/", "c">> }

\* text of messages that arrive pre-routed as a command or an error
CmdTexts == { <<"/", "c">> }

\* task references a /done command or a done callback may carry
TaskRefs == { <<>>, P1, FormatId(TaskPrefix, 1) }

EnvVals == { <<>>, <<" ">>, <<"x">> }

MkEnv(token, notes_id, tasks_id, url) ==
  [ NOTION_TOKEN |-> token, NOTION_NOTES_DB_ID |-> notes_id,
    NOTION_TASKS_DB_ID |-> tasks_id, DATABASE_URL |-> url ]

\* the environments a process is started with: nothing configured, the
\* relational store, Notion, and Notion with the relational store
Envs ==
  { MkEnv(<<>>, <<>>, <<>>, <<>>),
    MkEnv(<<>>, <<>>, <<>>, <<"x">>),
    MkEnv(<<"x">>, <<"x">>, <<"x">>, <<>>),
    MkEnv(<<"x">>, <<"x">>, <<"x">>, <<"x">>) }

NoRoute == [kind |-> "none", command |-> "", text |-> <<>>, task_id |-> <<>>, query |-> <<>>]

CommandRoutes ==
  { [NoRoute EXCEPT !.kind = "command", !.command = c] :
      c \in {"today", "inbox", "settings", "help", "cancel"} }
  \cup
  { [NoRoute EXCEPT !.kind = "command", !.command = c, !.text = t] :
      c \in {"note", "todo"}, t \in { <<>>, <<"a">> } }
  \cup
  { [NoRoute EXCEPT !.kind = "command", !.command = "search", !.query = t] :
      t \in { <<>>, <<"a">> } }
  \cup
  { [NoRoute EXCEPT !.kind = "command", !.command = "done", !.task_id = t] :
      t \in TaskRefs }

NoCallback == [kind |-> "", action |-> "", task_id |-> <<>>]

MkEvent(ty, c, m, t, r, cb) ==
  [type |-> ty, chat_id |-> c, message_id |-> m, text |-> t, route |-> r, callback |-> cb]

MessageEvents ==
  { MkEvent("message", c, 5, t, r, NoCallback) :
      c \in Chats, t \in CmdTexts, r \in CommandRoutes }
  \cup
  { MkEvent("message", c, NoneVal, <<"/", "c">>,
            [NoRoute EXCEPT !.kind = "command", !.command = cmd, !.text = <<"a">>], NoCallback) :
      c \in Chats, cmd \in {"note", "todo"} }
  \cup
  { MkEvent("message", c, 5, t, NoRoute, NoCallback) : c \in Chats, t \in Texts }
  \cup
  { MkEvent("message", c, 5, t, [NoRoute EXCEPT !.kind = "text", !.text = t], NoCallback) :
      c \in Chats, t \in Texts }
  \cup
  { MkEvent("message", c, 5, t, [NoRoute EXCEPT !.kind = "unknown_command", !.command = "c"],
            NoCallback) : c \in Chats, t \in CmdTexts }
  \cup
  { MkEvent("message", c, 5, t, [NoRoute EXCEPT !.kind = "error"], NoCallback) :
      c \in Chats, t \in CmdTexts }

CallbackEvents ==
  { MkEvent("callback", c, m, <<>>, NoRoute, [NoCallback EXCEPT !.action = a]) :
      c \in Chats, m \in Mids \cup {NoneVal}, a \in {"pick_done", "pick_edit"} }
  \cup
  { MkEvent("callback", c, m, <<>>, NoRoute, [NoCallback EXCEPT !.action = "done", !.task_id = t]) :
      c \in Chats, m \in Mids, t \in TaskRefs }
  \cup
  { MkEvent("callback", c, NoneVal, <<>>, NoRoute, [NoCallback EXCEPT !.action = "done", !.task_id = P1]) :
      c \in Chats }
  \cup
  { MkEvent("callback", c, m, <<>>, NoRoute, [NoCallback EXCEPT !.action = a]) :
      c \in Chats, m \in Mids, a \in {"today", "inbox", "help", "settings", "zzz"} }
  \cup
  { MkEvent("callback", c, m, <<>>, NoRoute, [NoCallback EXCEPT !.kind = "error"]) :
      c \in Chats, m \in Mids }

\* events handle_event ignores: wrong type, or chat_id not an int
IllTypedEvents ==
  { e \in [type : {"message", "callback", "unsupported"}, chat_id : Chats \cup {NoneVal},
           message_id : {5}, text : { <<"1">> }, route : {NoRoute},
           callback : {[NoCallback EXCEPT !.action = "pick_done"]}] :
      e.type = "unsupported" \/ e.chat_id = NoneVal }

\* the second chat is a bystander with a shorter repertoire: plain texts,
\* /today, /note, /todo, /cancel and the Done button
Bystander(e) ==
  \/ e.type = "message" /\ e.route.kind = "text" /\ e.text \in { <<"1">>, <<"a">>, <<"/", "c">> }
  \/ e.type = "message" /\ e.message_id = 5 /\ e.route.kind = "command"
       /\ e.route.command \in {"today", "cancel", "note", "todo"} /\ e.route.text \in { <<>>, <<"a">> }
       /\ (e.route.command \in {"note", "todo"} => e.route.text = <<"a">>)
  \/ e.type = "callback" /\ e.callback.action = "pick_done"

Events ==
  { e \in MessageEvents \cup CallbackEvents : e.chat_id = 1 \/ Bystander(e) }
  \cup IllTypedEvents

\* ---------------------------------------------- external backend outcomes
\* a task as notion.list_open_tasks returns it
PoolTask(id, title) ==
  [id |-> id, title |-> title, due |-> <<>>, status |-> <<"t", "o", "d", "o">>]

Listings ==
  { <<>>, <<PoolTask(P1, <<"a">>)>>, <<PoolTask(P2, <<"b">>)>>,
    <<PoolTask(P1, <<"a">>), PoolTask(P2, <<"b">>)>> }

\* what the collaborators answer during one handle_event call:
\*   res   result of the note/task operation: True / False / exception
\*   list  what a list-open-tasks call returns
\*   init  whether db.init_db() succeeds
\*   s_notes, s_tasks  the Notion ids stored in the settings table
Outcomes ==
  [ res : {"ok", "fail", "raise"}, list : Listings, init : {"ok", "raise"},
    s_notes : { <<>>, <<"x">> }, s_tasks : { <<>>, <<"x">> } ]

NoAnswers == [res |-> "ok", list |-> <<>>, init |-> "ok", s_notes |-> <<>>, s_tasks |-> <<>>]

\* ---------------------------------------------------------------- intents
NoText == [tpl |-> "", args |-> <<>>]

Intent0 ==
  [ type |-> "", chat_id |-> 0, text |-> NoText, message_id |-> NoneVal,
    edit |-> "", remove_task_id |-> <<>>, update_id |-> <<>>, update_title |-> <<>>,
    list_kind |-> "", tasks |-> <<>>, reply_markup |-> "" ]

\* reply(msg, **extra)
reply(c, tpl, args) ==
  << [Intent0 EXCEPT !.type = "reply", !.chat_id = c, !.text = [tpl |-> tpl, args |-> args]] >>

reply_markup(c, tpl, args, markup) ==
  << [Intent0 EXCEPT !.type = "reply", !.chat_id = c,
                     !.text = [tpl |-> tpl, args |-> args], !.reply_markup = markup] >>

\* faulty variant: the edit intent forgets which task to remove
EditRemoveNoId(c, m, id) ==
  << [Intent0 EXCEPT !.type = "edit", !.chat_id = c, !.message_id = m, !.edit = "remove"] >>

EditRemove(c, m, id) ==
  << [Intent0 EXCEPT !.type = "edit", !.chat_id = c, !.message_id = m,
                     !.edit = "remove", !.remove_task_id = id] >>

EditUpdate(c, m, id, title) ==
  << [Intent0 EXCEPT !.type = "edit", !.chat_id = c, !.message_id = m,
                     !.edit = "update", !.update_id = id, !.update_title = title] >>

Call(b, op, id, text) == [backend |-> b, op |-> op, id |-> id, text |-> text]

\* ------------------------------------------------------- dict operations
Has(d, k) == k \in DOMAIN d

\* d.pop(k, None)
Pop(d, k) == [x \in (DOMAIN d) \ {k} |-> d[x]]

\* d[k] = v
Put(d, k, v) == [x \in (DOMAIN d) \cup {k} |-> IF x = k THEN v ELSE d[x]]

\* faulty variant: the bucket is assigned instead of defaulted
SetDefaultReset(d, k) == Put(d, k, <<>>)

\* d.setdefault(k, [])
SetDefault(d, k) == IF Has(d, k) THEN d ELSE Put(d, k, <<>>)

EmptyDict == [x \in {} |-> <<>>]

\* ------------------------------------------------- handle_event: prelude
\* text = (event.get("text") or "").strip()
text_(e) == Strip(e.text)

\* route of a message event, or the route a callback action maps to
route_(e) ==
  IF e.type = "message"
  THEN IF e.route.kind = "none"
       THEN [NoRoute EXCEPT !.kind = "text", !.text = text_(e)]
       ELSE e.route
  ELSE IF e.callback.action \in {"today", "inbox", "help", "settings"}
       THEN [NoRoute EXCEPT !.kind = "command", !.command = e.callback.action]
       ELSE IF e.callback.action = "done"
            THEN [NoRoute EXCEPT !.kind = "command", !.command = "done",
                                 !.task_id = Strip(e.callback.task_id)]
            ELSE [NoRoute EXCEPT !.kind = "pick_action", !.command = e.callback.action]

db_enabled == Strip(env.DATABASE_URL) # <<>>

notion_token == Strip(env.NOTION_TOKEN)

\* the settings table is consulted when a Notion id is missing from the environment
LoadsSettings ==
  db_enabled /\ (Strip(env.NOTION_NOTES_DB_ID) = <<>> \/ Strip(env.NOTION_TASKS_DB_ID) = <<>>)

notes_db_id(oc) ==
  IF Strip(env.NOTION_NOTES_DB_ID) # <<>> THEN Strip(env.NOTION_NOTES_DB_ID)
  ELSE IF LoadsSettings /\ oc.init = "ok" THEN Strip(oc.s_notes) ELSE <<>>

tasks_db_id(oc) ==
  IF Strip(env.NOTION_TASKS_DB_ID) # <<>> THEN Strip(env.NOTION_TASKS_DB_ID)
  ELSE IF LoadsSettings /\ oc.init = "ok" THEN Strip(oc.s_tasks) ELSE <<>>

\* faulty variant: the token alone switches Notion on
notion_enabled_token_only(oc) == notion_token # <<>>

notion_enabled(oc) ==
  notion_token # <<>> /\ notes_db_id(oc) # <<>> /\ tasks_db_id(oc) # <<>>

\* state of a call in progress
Ret(s, intents) == [s EXCEPT !.out = intents]

Raise(s) == [s EXCEPT !.raised = TRUE, !.out = <<>>]

Log(s, c) == [s EXCEPT !.calls = Append(@, c)]

PopPending(s, c) == [s EXCEPT !.pending = Pop(@, c)]

\* index of the first in-memory task with this id, 0 when there is none
FirstIndex(list, id) ==
  IF \E i \in 1..Len(list) : list[i].id = id
  THEN CHOOSE i \in 1..Len(list) :
         list[i].id = id /\ \A j \in 1..(i - 1) : list[j].id # id
  ELSE 0

\* for t in state.tasks[chat_id]: if t.id == task_id: t.done = True; break
MemMarkDone(s, c, id) ==
  LET i == FirstIndex(s.tasks[c], id) IN
  IF i = 0 THEN s ELSE [s EXCEPT !.tasks[c][i].done = TRUE]

\* for t in state.tasks[chat_id]: if t.id == task_id: t.text = new_title; break
MemSetText(s, c, id, title) ==
  LET i == FirstIndex(s.tasks[c], id) IN
  IF i = 0 THEN s ELSE [s EXCEPT !.tasks[c][i].text = title]

\* ------------------------------------- handle_event: pending pick flow
\* _get_cached_tasks(); None and [] are both "not tasks", written <<>>
_get_cached_tasks(c, source_mid) ==
  IF ~IsInt(source_mid) THEN <<>>
  ELSE IF Has(render_cache, <<c, source_mid>>)
       THEN render_cache[<<c, source_mid>>].tasks
       ELSE <<>>

\* mode done_pick, valid index: perform done on the active backend
DonePick(e, oc, s, pend, task_id) ==
  LET c == e.chat_id
      smid == pend.source_message_id
      finish(s1) ==
        IF ~IsInt(smid)
        THEN Ret(PopPending(s1, c), reply(c, "Done. (Could not update the list message.)", <<>>))
        ELSE Ret(PopPending(s1, c), EditRemove(c, smid, task_id))
  IN
  IF notion_enabled(oc)
  THEN LET s1 == Log(s, Call("notion", "mark_task_done", task_id, <<>>)) IN
       IF oc.res = "raise" THEN Raise(s1)
       ELSE IF oc.res = "fail"
            THEN Ret(PopPending(s1, c),
                     reply(c, "Could not mark done (Notion). Try /today again.", <<>>))
            ELSE finish(s1)
  ELSE IF db_enabled
  THEN IF oc.init = "raise" THEN Raise(s)
       ELSE LET s1 == Log(s, Call("db", "mark_task_done", task_id, <<>>)) IN
            IF oc.res = "raise" THEN Raise(s1)
            ELSE IF oc.res = "fail"
                 THEN Ret(PopPending(s1, c), reply(c, "Could not mark done. Try /today again.", <<>>))
                 ELSE finish(s1)
  ELSE finish(Log(MemMarkDone(s, c, task_id), Call("mem", "mark_task_done", task_id, <<>>)))

\* faulty variant: the expired entry is kept
ExpiredKeeps(s, c) ==
  Ret(s, reply(c, "Task list expired. Run /today or /inbox again.", <<>>))

\* no usable cached list: the entry is dropped
Expired(s, c) ==
  Ret(PopPending(s, c), reply(c, "Task list expired. Run /today or /inbox again.", <<>>))

\* faulty variant: an out-of-range number drops the entry
InvalidRangeClears(s, c, n) ==
  Ret(PopPending(s, c), reply(c, "Invalid number. Choose 1 to {len(tasks)}.", <<DecStr(n)>>))

\* index outside [1, len(tasks)]: re-prompt, the entry stays
InvalidRange(s, c, n) ==
  Ret(s, reply(c, "Invalid number. Choose 1 to {len(tasks)}.", <<DecStr(n)>>))

\* edit_pick -> edit_new_text: the entry that asks for the new text
EditPickNext(pend, task_id, idx) ==
  [mode |-> "edit_new_text", source_message_id |-> pend.source_message_id,
   task_id |-> task_id, item_number |-> idx]

\* modes done_pick / edit_pick: the reply is an item number
PickNumber(e, oc, s, pend) ==
  LET c == e.chat_id
      raw == Strip(text_(e))
      tasks_ == _get_cached_tasks(c, pend.source_message_id)
  IN
  IF ~IsDigitStr(raw)
  THEN Ret(s, reply(c, "Reply with the item number (e.g. 2).", <<>>))
  ELSE IF tasks_ = <<>>
  THEN Expired(s, c)
  ELSE IF ToInt(raw) < 1 \/ ToInt(raw) > Len(tasks_)
  THEN InvalidRange(s, c, Len(tasks_))
  ELSE LET task_id == Strip(tasks_[ToInt(raw)].id) IN
       IF task_id = <<>>
       THEN Ret(PopPending(s, c), reply(c, "That item is missing an id. Run /today again.", <<>>))
       ELSE IF pend.mode = "done_pick"
       THEN DonePick(e, oc, s, pend, task_id)
       ELSE Ret([s EXCEPT !.pending = Put(@, c, EditPickNext(pend, task_id, ToInt(raw)))],
                reply(c, "Send the new text for item {idx}.", <<DecStr(ToInt(raw))>>))

\* mode edit_new_text: the reply is the new title
EditNewText(e, oc, s, pend) ==
  LET c == e.chat_id
      task_id == Strip(pend.task_id)
      new_title == Strip(text_(e))
      smid == pend.source_message_id
      finish(s1) ==
        IF ~IsInt(smid)
        THEN Ret(PopPending(s1, c),
                 reply(c, "Updated item {item_no}. (Could not update the list message.)",
                       <<DecStr(pend.item_number)>>))
        ELSE Ret(PopPending(s1, c), EditUpdate(c, smid, task_id, new_title))
  IN
  IF new_title = <<>>
  THEN Ret(s, reply(c, "New text cannot be empty. Send the updated task text.", <<>>))
  ELSE IF notion_enabled(oc)
  THEN LET s1 == Log(s, Call("notion", "update_task_title", task_id, new_title)) IN
       IF oc.res = "raise" THEN Raise(s1) ELSE finish(s1)
  ELSE IF db_enabled
  THEN finish(s)      \* db has no update_task_text; every exception is swallowed
  ELSE finish(Log(MemSetText(s, c, task_id, new_title),
                  Call("mem", "update_task_title", task_id, new_title)))

\* "if pending and route.get('kind') == 'text'": pending is the entry read
\* before the command-while-pending reset popped it
Intercepts(e) ==
  /\ e.type = "message"
  /\ Has(pending, e.chat_id)
  /\ route_(e).kind = "text"
  /\ pending[e.chat_id].mode \in {"done_pick", "edit_pick", "edit_new_text"}

PendingFlow(e, oc, s) ==
  LET pend == pending[e.chat_id] IN
  IF pend.mode \in {"done_pick", "edit_pick"}
  THEN PickNumber(e, oc, s, pend)
  ELSE EditNewText(e, oc, s, pend)

\* faulty variant: the pick entry is written without the message id check
PickActionAnyMid(e, s) ==
  LET c == e.chat_id
      action == route_(e).command
      mode == IF action = "pick_done" THEN "done_pick" ELSE "edit_pick"
  IN
  Ret([s EXCEPT !.pending = Put(@, c, [mode |-> mode, source_message_id |-> e.message_id,
                                       task_id |-> <<>>, item_number |-> 0])],
      reply(c, "Which item number to mark Done? (1 to {n})", <<DecStr(0)>>))

\* callback pick_done / pick_edit
PickAction(e, s) ==
  LET c == e.chat_id
      mid == e.message_id
      action == route_(e).command
      n == Len(_get_cached_tasks(c, mid))
      start(mode) == [s EXCEPT !.pending =
                        Put(@, c, [mode |-> mode, source_message_id |-> mid,
                                   task_id |-> <<>>, item_number |-> 0])]
  IN
  IF ~IsInt(mid)
  THEN Ret(s, reply(c, "I can't find the task list message. Run /today again.", <<>>))
  ELSE IF action = "pick_done"
  THEN Ret(start("done_pick"), reply(c, "Which item number to mark Done? (1 to {n})", <<DecStr(n)>>))
  ELSE IF action = "pick_edit"
  THEN Ret(start("edit_pick"), reply(c, "Which item number to Edit? (1 to {n})", <<DecStr(n)>>))
  ELSE Ret(s, reply(c, "Unknown action.", <<>>))

\* ------------------------------------------ handle_event: list rendering
MapSeq(list, F(_, _)) == [i \in 1..Len(list) |-> F(i, list[i])]

\* the last n elements: list[-n:]
LastN(list, n) == SubSeq(list, IF Len(list) > n THEN Len(list) - n + 1 ELSE 1, Len(list))

due_txt(t) == IF t.due # <<>> THEN <<" ", "(", "d", "u", "e", " ">> \o t.due \o <<")">> ELSE <<>>

\* faulty variant: the lines are numbered from 0
TodayLineFromZero(i, t) == DecStr(i - 1) \o <<".", " ">> \o Strip(t.title) \o due_txt(t)

\* f"{i}. {title}{due_txt}"
TodayLine(i, t) == DecStr(i) \o <<".", " ">> \o Strip(t.title) \o due_txt(t)

\* f"{i}. [{status}] {title}{due_txt}"
InboxLine(i, t) ==
  DecStr(i) \o <<".", " ", "[">> \o t.status \o <<"]", " ">> \o Strip(t.title) \o due_txt(t)

\* f"- {t.id}: {t.text}"
PreviewLine(i, t) == <<"-", " ">> \o t.id \o <<":", " ">> \o t.text

rendered_task(i, t) == [id |-> t.id, title |-> Strip(t.title), due |-> t.due, status |-> t.status]

\* rows db.list_open_tasks returns, as {id, text}
DbRow(i, t) == [id |-> t.id, text |-> t.title, done |-> FALSE]

\* faulty variant: the tasks already done are listed too
OpenTasksAll(s, c) == s.tasks[c]

OpenTasks(s, c) == SelectSeq(s.tasks[c], LAMBDA t : ~t.done)

TwoButtons == "two_button_task_list"
OpenInNotion == "open_in_notion"

\* /today and /inbox
ListCommand(e, oc, s, cmd) ==
  LET c == e.chat_id
      limit == IF cmd = "today" THEN 5 ELSE 20
      emptyTpl == IF cmd = "today" THEN "No open tasks. Go touch grass"
                  ELSE "Inbox is empty. Suspiciously productive."
      headTpl == IF cmd = "today" THEN "Open tasks: {n}\n{lines}" ELSE "Inbox (open tasks):\n{lines}"
      head(n) == IF cmd = "today" THEN <<DecStr(n)>> ELSE <<>>
  IN
  IF notion_enabled(oc)
  THEN LET s1 == Log(s, Call("notion", "list_open_tasks", tasks_db_id(oc), <<>>))
           lines == IF cmd = "today" THEN MapSeq(oc.list, TodayLine) ELSE MapSeq(oc.list, InboxLine)
           text_out == [tpl |-> headTpl, args |-> head(Len(oc.list)) \o lines]
       IN
       IF oc.res = "raise" THEN Raise(s1)
       ELSE IF oc.list = <<>> THEN Ret(s1, reply(c, emptyTpl, <<>>))
       ELSE Ret(s1,
                << [Intent0 EXCEPT !.type = "reply", !.chat_id = c, !.text = text_out,
                                   !.reply_markup = TwoButtons],
                   [Intent0 EXCEPT !.type = "cache_task_list", !.chat_id = c,
                                   !.list_kind = cmd, !.tasks = MapSeq(oc.list, rendered_task),
                                   !.text = text_out] >>)
  ELSE IF db_enabled
  THEN IF oc.init = "raise" THEN Raise(s)
       ELSE LET s1 == Log(s, Call("db", "list_open_tasks", <<>>, <<>>))
                rows == MapSeq(oc.list, DbRow)
            IN
            IF oc.res = "raise" THEN Raise(s1)
            ELSE IF rows = <<>> THEN Ret(s1, reply(c, emptyTpl, <<>>))
            ELSE Ret(s1, reply(c, headTpl, head(Len(rows)) \o MapSeq(rows, PreviewLine)))
  ELSE LET s1 == Log(s, Call("mem", "list_open_tasks", <<>>, <<>>))
           open_tasks == OpenTasks(s, c)
       IN
       IF open_tasks = <<>> THEN Ret(s1, reply(c, emptyTpl, <<>>))
       ELSE Ret(s1, reply(c, headTpl,
                          head(Len(open_tasks)) \o MapSeq(LastN(open_tasks, limit), PreviewLine)))

\* --------------------------------------- handle_event: create / done / search
\* _save_message_map: best effort, every exception swallowed; of the call
\* shapes tried, db.save_message_map(chat_id, message_id, notion_page_id) fits
_save_message_map(e, oc, s, page_id) ==
  IF ~db_enabled \/ ~IsInt(e.message_id) \/ oc.init = "raise" THEN s
  ELSE Log(s, Call("db", "save_message_map", page_id, <<>>))

\* faulty variant: the in-memory note is put in front of the list
CreateNotePrepend(e, oc, s, note_text) ==
  LET c == e.chat_id IN
  IF notion_enabled(oc)
  THEN LET s1 == Log(s, Call("notion", "create_note", notes_db_id(oc), note_text)) IN
       IF oc.res = "raise" THEN Raise(s1)
       ELSE Ret(_save_message_map(e, oc, s1, NewPageId),
                reply_markup(c, "Saved note (Notion): {page_id}", <<NewPageId>>, OpenInNotion))
  ELSE IF db_enabled
  THEN IF oc.init = "raise" THEN Raise(s)
       ELSE LET s1 == Log(s, Call("db", "create_note", <<>>, note_text)) IN
            IF oc.res = "raise" THEN Raise(s1)
            ELSE Ret(s1, reply(c, "Saved note: {nid}", <<NewPageId>>))
  ELSE LET nid == FormatId(NotePrefix, s.seq + 1) IN
       Ret([Log(s, Call("mem", "create_note", nid, note_text))
              EXCEPT !.seq = @ + 1,
                     !.notes[c] = <<[id |-> nid, text |-> note_text]>> \o @],
           reply(c, "Saved note: {nid}", <<nid>>))

\* note capture (the /note command and the plain-text fallback)
CreateNote(e, oc, s, note_text) ==
  LET c == e.chat_id IN
  IF notion_enabled(oc)
  THEN LET s1 == Log(s, Call("notion", "create_note", notes_db_id(oc), note_text)) IN
       IF oc.res = "raise" THEN Raise(s1)
       ELSE Ret(_save_message_map(e, oc, s1, NewPageId),
                reply_markup(c, "Saved note (Notion): {page_id}", <<NewPageId>>, OpenInNotion))
  ELSE IF db_enabled
  THEN IF oc.init = "raise" THEN Raise(s)
       ELSE LET s1 == Log(s, Call("db", "create_note", <<>>, note_text)) IN
            IF oc.res = "raise" THEN Raise(s1)
            ELSE Ret(s1, reply(c, "Saved note: {nid}", <<NewPageId>>))
  ELSE LET nid == FormatId(NotePrefix, s.seq + 1) IN
       Ret([Log(s, Call("mem", "create_note", nid, note_text))
              EXCEPT !.seq = @ + 1,
                     !.notes[c] = Append(@, [id |-> nid, text |-> note_text])],
           reply(c, "Saved note: {nid}", <<nid>>))

\* faulty variant: without Notion the task is acknowledged but not created
CreateTaskNoAppend(e, oc, s, task_text) ==
  LET c == e.chat_id IN
  IF notion_enabled(oc)
  THEN LET s1 == Log(s, Call("notion", "create_task", tasks_db_id(oc), task_text)) IN
       IF oc.res = "raise" THEN Raise(s1)
       ELSE Ret(_save_message_map(e, oc, s1, NewPageId),
                reply_markup(c, "Added task (Notion): {page_id}", <<NewPageId>>, OpenInNotion))
  ELSE IF db_enabled
  THEN IF oc.init = "raise" THEN Raise(s)
       ELSE Ret(s, reply(c, "Added task: {tid}", <<NewPageId>>))
  ELSE LET tid == FormatId(TaskPrefix, s.seq + 1) IN
       Ret([s EXCEPT !.seq = @ + 1], reply(c, "Added task: {tid}", <<tid>>))

CreateTask(e, oc, s, task_text) ==
  LET c == e.chat_id IN
  IF notion_enabled(oc)
  THEN LET s1 == Log(s, Call("notion", "create_task", tasks_db_id(oc), task_text)) IN
       IF oc.res = "raise" THEN Raise(s1)
       ELSE Ret(_save_message_map(e, oc, s1, NewPageId),
                reply_markup(c, "Added task (Notion): {page_id}", <<NewPageId>>, OpenInNotion))
  ELSE IF db_enabled
  THEN IF oc.init = "raise" THEN Raise(s)
       ELSE LET s1 == Log(s, Call("db", "create_task", <<>>, task_text)) IN
            IF oc.res = "raise" THEN Raise(s1)
            ELSE Ret(s1, reply(c, "Added task: {tid}", <<NewPageId>>))
  ELSE LET tid == FormatId(TaskPrefix, s.seq + 1) IN
       Ret([Log(s, Call("mem", "create_task", tid, task_text))
              EXCEPT !.seq = @ + 1,
                     !.tasks[c] = Append(@, [id |-> tid, text |-> task_text, done |-> FALSE])],
           reply(c, "Added task: {tid}", <<tid>>))

\* the confirmation of a done command: an edit for a callback on a message
DoneConfirm(e, s, task_id, tpl) ==
  IF e.type = "callback" /\ IsInt(e.message_id)
  THEN Ret(s, EditRemove(e.chat_id, e.message_id, task_id))
  ELSE Ret(s, reply(e.chat_id, tpl, <<task_id>>))

DoneCommand(e, oc, s) ==
  LET c == e.chat_id
      task_id == Strip(route_(e).task_id)
      i == FirstIndex(s.tasks[c], task_id)
  IN
  IF task_id = <<>> THEN Ret(s, reply(c, "Missing task id. Usage: /done <task_id>", <<>>))
  ELSE IF notion_enabled(oc)
  THEN LET s1 == Log(s, Call("notion", "mark_task_done", task_id, <<>>)) IN
       IF oc.res = "raise" THEN Raise(s1)
       ELSE IF oc.res = "fail" THEN Ret(s1, reply(c, "Task not found (Notion): {task_id}", <<task_id>>))
       ELSE DoneConfirm(e, s1, task_id, "Marked done (Notion): {task_id}")
  ELSE IF db_enabled
  THEN IF oc.init = "raise" THEN Raise(s)
       ELSE LET s1 == Log(s, Call("db", "mark_task_done", task_id, <<>>)) IN
            IF oc.res = "raise" THEN Raise(s1)
            ELSE IF oc.res = "fail"
                 THEN Ret(s1, reply(c, "Task not found (or already done): {task_id}", <<task_id>>))
                 ELSE DoneConfirm(e, s1, task_id, "Marked done: {task_id}")
  ELSE LET s1 == Log(s, Call("mem", "mark_task_done", task_id, <<>>)) IN
       IF i = 0 THEN Ret(s1, reply(c, "Task not found: {task_id}", <<task_id>>))
       ELSE IF s.tasks[c][i].done THEN Ret(s1, reply(c, "{task_id} is already done.", <<task_id>>))
       ELSE DoneConfirm(e, [s1 EXCEPT !.tasks[c][i].done = TRUE], task_id, "Marked done: {task_id}")

\* str.lower() on the characters of the model's alphabet
LowerChar(ch) ==
  CASE ch = "A" -> "a" [] ch = "B" -> "b" [] ch = "D" -> "d" [] ch = "N" -> "n"
    [] ch = "S" -> "s" [] OTHER -> ch

Lower(str) == [i \in 1..Len(str) |-> LowerChar(str[i])]

\* needle in hay
Contains(hay, needle) ==
  \E i \in 0..(Len(hay) - Len(needle)) : SubSeq(hay, i + 1, i + Len(needle)) = needle

IdOf(i, x) == x.id

\* /search: the relational store when configured, else the in-memory lists
SearchCommand(e, oc, s) ==
  LET c == e.chat_id
      q == Strip(route_(e).query)
      task_hits == SelectSeq(s.tasks[c], LAMBDA t : Contains(Lower(t.text), Lower(q)))
      note_hits == SelectSeq(s.notes[c], LAMBDA n : Contains(Lower(n.text), Lower(q)))
  IN
  IF q = <<>> THEN Ret(s, reply(c, "Missing query. Usage: /search <query>", <<>>))
  ELSE IF db_enabled
  THEN IF oc.init = "raise" THEN Raise(s)
       ELSE LET s1 == Log(s, Call("db", "search_notes_tasks", <<>>, q)) IN
            IF oc.res = "raise" THEN Raise(s1)
            ELSE IF oc.list = <<>> THEN Ret(s1, reply(c, "No results for: {q}", <<q>>))
            ELSE Ret(s1, reply(c, "Results for: {q}", <<q>> \o MapSeq(oc.list, IdOf)))
  ELSE LET s1 == Log(s, Call("mem", "search", <<>>, q)) IN
       IF task_hits = <<>> /\ note_hits = <<>>
       THEN Ret(s1, reply(c, "No results for: {q}", <<q>>))
       ELSE Ret(s1, reply(c, "Results for: {q}",
                          <<q>> \o MapSeq(SubSeq(task_hits, 1, IF Len(task_hits) < 5 THEN Len(task_hits) ELSE 5), IdOf)
                                \o MapSeq(SubSeq(note_hits, 1, IF Len(note_hits) < 5 THEN Len(note_hits) ELSE 5), IdOf)))

\* /settings without "set" arguments: db.get_setting(k, default) does not fit
\* db.get_setting(key) and raises TypeError when the relational store is on
SettingsCommand(e, oc, s) ==
  IF db_enabled
  THEN IF oc.init = "raise" THEN Raise(s)
       ELSE Raise(Log(s, Call("db", "get_setting", <<>>, <<>>)))
  ELSE Ret(s, reply(e.chat_id, "Settings:", <<>>))

\* ------------------------------------------------ handle_event: routing
CommandDispatch(e, oc, s) ==
  LET c == e.chat_id
      r == route_(e)
      cmd == r.command
  IN
  IF cmd = "note"
  THEN IF Strip(r.text) = <<>> THEN Ret(s, reply(c, "Missing text. Usage: /note <text>", <<>>))
       ELSE CreateNote(e, oc, s, Strip(r.text))
  ELSE IF cmd = "todo"
  THEN IF Strip(r.text) = <<>> THEN Ret(s, reply(c, "Missing text. Usage: /todo <text>", <<>>))
       ELSE CreateTask(e, oc, s, Strip(r.text))
  ELSE IF cmd \in {"today", "inbox"} THEN ListCommand(e, oc, s, cmd)
  ELSE IF cmd = "done" THEN DoneCommand(e, oc, s)
  ELSE IF cmd = "search" THEN SearchCommand(e, oc, s)
  ELSE IF cmd = "settings" THEN SettingsCommand(e, oc, s)
  ELSE IF cmd = "help" THEN Ret(s, reply(c, "Commands:", <<>>))
  ELSE Ret(s, reply(c, "Command not implemented yet: /{cmd}", << <<cmd>> >>))

Routing(e, oc, s) ==
  LET c == e.chat_id
      r == route_(e)
  IN
  IF r.kind = "pick_action" THEN PickAction(e, s)
  ELSE IF r.kind = "command" THEN CommandDispatch(e, oc, s)
  ELSE IF e.type = "message" /\ r.kind = "text"
  THEN IF Strip(r.text) = <<>> THEN Ret(s, reply(c, "Empty message", <<>>))
       ELSE CreateNote(e, oc, s, Strip(r.text))
  ELSE IF r.kind = "unknown_command"
  THEN Ret(s, reply(c, "Unknown command: /{command} (try /help)", << <<r.command>> >>))
  ELSE IF r.kind = "error" THEN Ret(s, reply(c, "{route.message}", <<>>))
  ELSE Ret(s, <<>>)

\* the call's view of AppState before anything ran
Entry == [notes |-> notes, tasks |-> tasks, seq |-> seq, pending |-> pending,
          out |-> <<>>, raised |-> FALSE, calls |-> <<>>]

\* "if pending and text.strip().startswith('/')": state.pending.pop(chat_id)
CommandReset(e, s) ==
  IF e.type = "message" /\ Has(pending, e.chat_id) /\ StartsWithSlash(Strip(text_(e)))
  THEN PopPending(s, e.chat_id)
  ELSE s

\* faulty variant: only the event type is checked
IllTypedTypeOnly(e) == e.type \notin {"message", "callback"}

\* "if et not in {'message', 'callback'} or not isinstance(chat_id, int)"
IllTyped(e) == e.type \notin {"message", "callback"} \/ ~IsInt(e.chat_id)

\* handle_event(event, state): the state it leaves and what it returns
handle_event(e, oc) ==
  IF IllTyped(e) THEN Entry
  ELSE IF e.type = "callback" /\ e.callback.kind = "error"
  THEN Ret(Entry, reply(e.chat_id, "{cb.message}", <<>>))
  ELSE IF e.type = "callback"
          /\ e.callback.action \notin {"today", "inbox", "help", "settings", "done", "pick_done", "pick_edit"}
  THEN Ret(Entry, reply(e.chat_id, "Unknown action: {action}", << <<e.callback.action>> >>))
  ELSE LET s0 == [Entry EXCEPT !.notes = SetDefault(@, e.chat_id),
                               !.tasks = SetDefault(@, e.chat_id),
                               !.calls = IF LoadsSettings /\ oc.init = "ok"
                                         THEN <<Call("db", "get_setting", <<>>, <<>>)>>
                                         ELSE <<>>]
           s1 == CommandReset(e, s0)
       IN
       IF Intercepts(e) THEN PendingFlow(e, oc, s1) ELSE Routing(e, oc, s1)

\* --------------------------------------- webhook: executing the intents
\* f"- {tid}: {title}{due_txt}" and f"- [{status}] {tid}: {title}{due_txt}"
EditTodayLine(i, t) == <<"-", " ">> \o t.id \o <<":", " ">> \o Strip(t.title) \o due_txt(t)

EditInboxLine(i, t) ==
  <<"-", " ", "[">> \o t.status \o <<"]", " ">> \o t.id \o <<":", " ">> \o Strip(t.title) \o due_txt(t)

\* the text an edit re-renders for the remaining tasks
EditText(list_kind, tasks_, remove_task_id) ==
  IF tasks_ = <<>> THEN [tpl |-> "All done", args |-> <<>>]
  ELSE IF list_kind = "today"
  THEN [tpl |-> "Open tasks: {n}\n{lines}", args |-> <<DecStr(Len(tasks_))>> \o MapSeq(tasks_, EditTodayLine)]
  ELSE IF list_kind = "inbox"
  THEN [tpl |-> "Inbox (open tasks):\n{lines}", args |-> MapSeq(tasks_, EditInboxLine)]
  ELSE [tpl |-> "Done: {remove_task_id}", args |-> <<remove_task_id>>]

\* faulty variant: an entry left without tasks is kept
ExecEditKeepsEmpty(cache, a) ==
  LET key == <<a.chat_id, a.message_id>>
      remove_task_id == Strip(a.remove_task_id)
  IN
  IF Has(cache, key)
  THEN LET tasks_ == SelectSeq(cache[key].tasks, LAMBDA t : t.id # remove_task_id)
           list_kind == cache[key].list_kind
       IN
       Put(cache, key, [list_kind |-> list_kind, tasks |-> tasks_,
                        text |-> EditText(list_kind, tasks_, remove_task_id)])
  ELSE cache

\* an edit intent: the cache entry is rewritten before the transport is called
ExecEdit(cache, a) ==
  LET key == <<a.chat_id, a.message_id>>
      remove_task_id == Strip(a.remove_task_id)
  IN
  IF Has(cache, key)
  THEN LET tasks_ == SelectSeq(cache[key].tasks, LAMBDA t : t.id # remove_task_id)
           list_kind == cache[key].list_kind
       IN
       IF tasks_ # <<>>
       THEN Put(cache, key, [list_kind |-> list_kind, tasks |-> tasks_,
                             text |-> EditText(list_kind, tasks_, remove_task_id)])
       ELSE Pop(cache, key)
  ELSE cache

\* the first cache_task_list intent of this run for the chat, if any
CacheIntentIndex(actions, c) ==
  IF \E i \in 1..Len(actions) : actions[i].type = "cache_task_list" /\ actions[i].chat_id = c
  THEN CHOOSE i \in 1..Len(actions) :
         /\ actions[i].type = "cache_task_list" /\ actions[i].chat_id = c
         /\ \A j \in 1..(i - 1) : ~(actions[j].type = "cache_task_list" /\ actions[j].chat_id = c)
  ELSE 0

\* faulty variant: the list is stored whether or not a message id came back
ExecReplyNoIdCheck(cache, a, actions, tx) ==
  LET i == CacheIntentIndex(actions, a.chat_id) IN
  IF tx.send = "ok" /\ i # 0
  THEN Put(cache, <<a.chat_id, tx.mid>>,
           [list_kind |-> actions[i].list_kind, tasks |-> actions[i].tasks,
            text |-> actions[i].text])
  ELSE cache

\* a reply intent: sent; a returned message id keys the companion task list
ExecReply(cache, a, actions, tx) ==
  LET i == CacheIntentIndex(actions, a.chat_id) IN
  IF tx.send = "ok" /\ IsInt(tx.mid) /\ i # 0
  THEN Put(cache, <<a.chat_id, tx.mid>>,
           [list_kind |-> actions[i].list_kind, tasks |-> actions[i].tasks,
            text |-> actions[i].text])
  ELSE cache

\* for a in actions: ...
RECURSIVE ExecIntents(_, _, _, _)
ExecIntents(cache, k, actions, tx) ==
  IF k > Len(actions) THEN cache
  ELSE IF actions[k].type = "edit"
  THEN ExecIntents(ExecEdit(cache, actions[k]), k + 1, actions, tx)
  ELSE IF actions[k].type = "reply"
  THEN ExecIntents(ExecReply(cache, actions[k], actions, tx), k + 1, actions, tx)
  ELSE ExecIntents(cache, k + 1, actions, tx)

\* what the chat transport answers: send result (with or without a message
\* id, or an exception) and edit result
Transports ==
  [ send : {"ok", "fail"}, mid : SendMids \cup {NoneVal}, edit : {"ok", "fail"} ]

\* the transport answers that can matter for these intents
TransportsFor(actions) ==
  { tx \in Transports :
      /\ ((\A i \in 1..Len(actions) : actions[i].type # "reply") => tx.send = "ok")
      /\ ((\A i \in 1..Len(actions) : actions[i].type # "cache_task_list") => tx.mid = NoneVal)
      /\ (tx.send = "fail" => tx.mid = NoneVal)
      /\ ((\A i \in 1..Len(actions) : actions[i].type # "edit") => tx.edit = "ok") }

\* no transport call was made (yet) for the request
NoTransport == [send |-> "ok", mid |-> NoneVal, edit |-> "ok"]

\* ----------------------------------------------------------------- actions
NoEvent ==
  [type |-> "none", chat_id |-> NoneVal, message_id |-> NoneVal, text |-> <<>>,
   route |-> NoRoute, callback |-> NoCallback]

\* no gate variable is set: no secret, no owner, not strict
NoGate ==
  [TELEGRAM_WEBHOOK_SECRET |-> <<>>, TELEGRAM_ALLOWED_USER_ID |-> <<>>,
   APP_ENV |-> <<>>, TELEGRAM_STRICT_OWNER_ONLY |-> <<>>]

\* no request was received yet
\* callback_id of an update that carries none (None, not a str)
NoCallbackId == <<"None">>

NoUpdate ==
  [hdr |-> <<>>, body |-> "json", user_id |-> NoneVal, callback_id |-> NoCallbackId,
   event |-> NoEvent]

\* no response was given yet
NoResponse ==
  [status |-> 0, ok |-> FALSE, type |-> "", unauthorized |-> FALSE, sent |-> 0, errors |-> 0,
   actions |-> <<>>, saved |-> <<>>, transport |-> <<>>]

\* the workers that poll the job queue
Workers == {1, 2}

\* a worker outside claim_next_job that holds no job
IdleWorker == [pc |-> "idle", row |-> NoneVal, job |-> NoneVal]

\* the webhook requests in flight
Requests == {1, 2}

\* a request that has not arrived: the coroutine's position and its locals
NoRequest == [pc |-> "new", ev |-> NoEvent, out |-> <<>>, raised |-> FALSE]

\* build_daily_brief_text was not called yet
NoBrief == [mode |-> "", today |-> 0, fetched |-> <<>>, sections |-> <<>>]

Init ==
  /\ notes = EmptyDict
  /\ tasks = EmptyDict
  /\ seq = 0
  /\ render_cache = EmptyDict
  /\ pending = EmptyDict
  /\ env \in Envs
  /\ ev = NoEvent
  /\ out = <<>>
  /\ raised = FALSE
  /\ calls = <<>>
  /\ answers = NoAnswers
  /\ sent = NoTransport
  /\ pc = "idle"
  /\ hist = <<>>
  /\ gate = NoGate
  /\ upd = NoUpdate
  /\ resp = NoResponse
  /\ jobs = <<>>
  /\ wk = [w \in Workers |-> IdleWorker]
  /\ now = 0
  /\ req = [r \in Requests |-> NoRequest]
  /\ loop = 0
  /\ brief = NoBrief

IsListEvent(e) ==
  \/ e.type = "message" /\ e.route.kind = "command" /\ e.route.command \in {"today", "inbox", "search"}
  \/ e.type = "callback" /\ e.callback.action \in {"today", "inbox"}

\* events whose backend operation reports success or failure
IsMarkEvent(e) ==
  \/ e.type = "message" /\ e.route.kind \in {"none", "text"}
  \/ e.type = "message" /\ e.route.kind = "command" /\ e.route.command = "done"
  \/ e.type = "callback" /\ e.callback.action = "done"

\* events that perform a backend operation at all
IsBackendEvent(e) ==
  \/ IsListEvent(e) \/ IsMarkEvent(e)
  \/ e.type = "message" /\ e.route.kind = "command" /\ e.route.command \in {"note", "todo"}

\* the collaborator answers that can matter for this event
OutcomesFor(e) ==
  { oc \in Outcomes :
      /\ (~IsListEvent(e) => oc.list = <<>>)
      /\ (~IsMarkEvent(e) => oc.res # "fail")
      /\ (~IsBackendEvent(e) => oc.res = "ok")
      /\ (~db_enabled => oc.init = "ok")
      /\ (~(LoadsSettings /\ notion_token # <<>> /\ oc.init = "ok")
            => oc.s_notes = <<>> /\ oc.s_tasks = <<>>) }

\* one call of handle_event, for an event of the set E
HandleEventIn(E) ==
  /\ pc = "idle"
  /\ \E e \in E : \E oc \in OutcomesFor(e) : \E r \in {handle_event(e, oc)} :
       /\ r.seq <= MaxSeq
       /\ notes' = r.notes
       /\ tasks' = r.tasks
       /\ seq' = r.seq
       /\ pending' = r.pending
       /\ ev' = e
       /\ out' = r.out
       /\ raised' = r.raised
       /\ calls' = r.calls
       /\ answers' = oc
       /\ pc' = "exec"
  /\ UNCHANGED <<render_cache, env, sent>>
  /\ UNCHANGED extvars

\* the webhook executes the returned intents and answers the request; an
\* exception of handle_event ends the request with nothing executed
ExecuteIntents ==
  /\ pc = "exec"
  /\ \E tx \in TransportsFor(out) :
       render_cache' = IF raised THEN render_cache ELSE ExecIntents(render_cache, 1, out, tx)
  /\ pc' = "idle"
  /\ ev' = NoEvent
  /\ out' = <<>>
  /\ raised' = FALSE
  /\ calls' = <<>>
  /\ answers' = NoAnswers
  /\ sent' = NoTransport
  /\ UNCHANGED <<notes, tasks, seq, pending, env>>
  /\ UNCHANGED extvars

HandleEvent == HandleEventIn(Events)

Next == HandleEvent \/ ExecuteIntents

Spec == Init /\ [][Next]_vars

\* --------------------------- specification with a changing environment
\* environments the process may be given between two events
CfgEnvs ==
  [ NOTION_TOKEN : EnvVals, NOTION_NOTES_DB_ID : { <<>>, <<"x">> },
    NOTION_TASKS_DB_ID : { <<>>, <<"x">> }, DATABASE_URL : { <<>>, <<"x">> } ]

\* events of one chat: /note, /todo, /today, /done, the two buttons, replies
CfgEvents ==
  { MkEvent("message", 1, 5, <<"/", "c">>,
            [NoRoute EXCEPT !.kind = "command", !.command = cmd, !.text = <<"a">>], NoCallback) :
      cmd \in {"note", "todo"} }
  \cup
  { MkEvent("message", 1, 5, <<"/", "c">>, [NoRoute EXCEPT !.kind = "command", !.command = "today"],
            NoCallback),
    MkEvent("message", 1, 5, <<"/", "c">>,
            [NoRoute EXCEPT !.kind = "command", !.command = "done", !.task_id = P1], NoCallback) }
  \cup
  { MkEvent("callback", 1, 7, <<>>, NoRoute, [NoCallback EXCEPT !.action = a]) :
      a \in {"pick_done", "pick_edit"} }
  \cup
  { MkEvent("message", 1, 5, t, [NoRoute EXCEPT !.kind = "text", !.text = t], NoCallback) :
      t \in { <<"1">>, <<"a">> } }

\* os.environ changes between two events (monkeypatch.setenv, a redeploy)
SetEnv ==
  /\ pc = "idle"
  /\ \E name \in {"NOTION_TOKEN", "NOTION_NOTES_DB_ID", "NOTION_TASKS_DB_ID", "DATABASE_URL"} :
       \E v \in EnvVals :
         /\ [env EXCEPT ![name] = v] \in CfgEnvs
         /\ env' = [env EXCEPT ![name] = v]
         /\ env' # env
  /\ UNCHANGED <<notes, tasks, seq, render_cache, pending, ev, out, raised, calls, answers, sent, pc>>
  /\ UNCHANGED extvars

HandleCfgEvent == HandleEventIn(CfgEvents)

NextCfg == HandleCfgEvent \/ ExecuteIntents \/ SetEnv

SpecCfg == Init /\ [][NextCfg]_vars

\* ------------------------------- specification of the task-list messages
P3 == <<"p", "3">>

\* a task as the Notion client returns it, with its description
ListTask(id, title, description, status) ==
  [id |-> id, title |-> title, description |-> description, due |-> <<>>, status |-> status]

TaskA == ListTask(P1, <<"b">>, <<>>, <<"t", "o", "d", "o">>)
TaskB == ListTask(P2, <<"a">>, <<"d">>, <<"t", "o", "d", "o">>)
TaskC == ListTask(P3, <<"B">>, <<"c">>, <<"d", "o", "i", "n", "g">>)
\* a second page with the id of TaskA
TaskA2 == ListTask(P1, <<"c">>, <<>>, <<"t", "o", "d", "o">>)

\* what a list call may return: any order, and an id may repeat
ListListings ==
  { <<>>, <<TaskB, TaskA>>, <<TaskA, TaskB, TaskC>>, <<TaskA, TaskA2>> }

ListOutcomes ==
  [ res : {"ok", "fail"}, list : ListListings, init : {"ok"},
    s_notes : { <<>> }, s_tasks : { <<>> } ]

\* message ids of the list messages of this specification
ListMids == {7, 8}

\* events of one chat: /today, /inbox, the Done button, item numbers, and the
\* done callback of a list row
ListEvents ==
  { MkEvent("message", 1, 5, <<"/", "c">>, [NoRoute EXCEPT !.kind = "command", !.command = cmd],
            NoCallback) : cmd \in {"today", "inbox"} }
  \cup
  { MkEvent("callback", 1, m, <<>>, NoRoute, [NoCallback EXCEPT !.action = "pick_done"]) :
      m \in ListMids }
  \cup
  { MkEvent("callback", 1, 8, <<>>, NoRoute, [NoCallback EXCEPT !.action = "done", !.task_id = P1]) }
  \cup
  { MkEvent("message", 1, 5, t, [NoRoute EXCEPT !.kind = "text", !.text = t], NoCallback) :
      t \in { <<"1">>, <<"2">> } }

ListOutcomesFor(e) ==
  { oc \in ListOutcomes :
      /\ (~IsListEvent(e) => oc.list = <<>>)
      /\ (~IsMarkEvent(e) => oc.res = "ok") }

\* one call of handle_event for a list event
HandleListEvent ==
  /\ pc = "idle"
  /\ \E e \in ListEvents : \E oc \in ListOutcomesFor(e) : \E r \in {handle_event(e, oc)} :
       /\ r.seq <= MaxSeq
       /\ notes' = r.notes
       /\ tasks' = r.tasks
       /\ seq' = r.seq
       /\ pending' = r.pending
       /\ ev' = e
       /\ out' = r.out
       /\ raised' = r.raised
       /\ calls' = r.calls
       /\ answers' = oc
       /\ pc' = "exec"
  /\ sent' = NoTransport
  /\ UNCHANGED <<render_cache, env>>
  /\ UNCHANGED extvars

ListTransports ==
  [ send : {"ok", "fail"}, mid : ListMids \cup {NoneVal}, edit : {"ok", "fail"} ]

ListTransportsFor(actions) ==
  { tx \in ListTransports :
      /\ ((\A i \in 1..Len(actions) : actions[i].type # "reply") => tx.send = "ok" /\ tx.mid = NoneVal)
      /\ (tx.send = "fail" => tx.mid = NoneVal)
      /\ ((\A i \in 1..Len(actions) : actions[i].type # "edit") => tx.edit = "ok") }

\* the webhook executes the intents; the transport's answer stays visible
ExecuteListIntents ==
  /\ pc = "exec"
  /\ \E tx \in ListTransportsFor(out) :
       /\ render_cache' = IF raised THEN render_cache ELSE ExecIntents(render_cache, 1, out, tx)
       /\ sent' = tx
  /\ pc' = "idle"
  /\ ev' = NoEvent
  /\ out' = <<>>
  /\ raised' = FALSE
  /\ calls' = <<>>
  /\ answers' = NoAnswers
  /\ UNCHANGED <<notes, tasks, seq, pending, env>>
  /\ UNCHANGED extvars

NextList == HandleListEvent \/ ExecuteListIntents

SpecList == Init /\ [][NextList]_vars

\* ------------------------------------ specification of edited list rows
\* the list events, the Edit button and a new title
EditEvents ==
  ListEvents
  \cup
  { MkEvent("callback", 1, 7, <<>>, NoRoute, [NoCallback EXCEPT !.action = "pick_edit"]) }
  \cup
  { MkEvent("message", 1, 5, <<"c">>, [NoRoute EXCEPT !.kind = "text", !.text = <<"c">>], NoCallback) }

\* one call of handle_event for an event of the edit flow
HandleEditEvent ==
  /\ pc = "idle"
  /\ \E e \in EditEvents : \E oc \in ListOutcomesFor(e) : \E r \in {handle_event(e, oc)} :
       /\ r.seq <= MaxSeq
       /\ notes' = r.notes
       /\ tasks' = r.tasks
       /\ seq' = r.seq
       /\ pending' = r.pending
       /\ ev' = e
       /\ out' = r.out
       /\ raised' = r.raised
       /\ calls' = r.calls
       /\ answers' = oc
       /\ pc' = "exec"
  /\ sent' = NoTransport
  /\ UNCHANGED <<render_cache, env>>
  /\ UNCHANGED extvars

NextEdit == HandleEditEvent \/ ExecuteListIntents

SpecEdit == Init /\ [][NextEdit]_vars

\* ------------------------------------ specification of repeated mark-done
\* /todo a, /done <id> and the done callback of a list row, from one chat
DoneEvents ==
  { e \in MessageEvents \cup CallbackEvents :
      /\ e.chat_id = 1
      /\ \/ /\ e.type = "message" /\ e.message_id = 5 /\ e.route.kind = "command"
            /\ \/ e.route.command = "todo" /\ e.route.text = <<"a">>
               \/ e.route.command = "done" /\ e.route.task_id # <<>>
         \/ e.type = "callback" /\ e.callback.action = "done" /\ IsInt(e.message_id) }

\* the task id a /done command or a done callback names
MarkedId(e) ==
  IF e.type \in {"message", "callback"} /\ route_(e).kind = "command" /\ route_(e).command = "done"
  THEN Strip(route_(e).task_id)
  ELSE <<>>

\* the intents confirm that the task was marked done
MarkConfirmed(actions, id) ==
  \E i \in 1..Len(actions) :
    \/ /\ actions[i].type = "reply"
       /\ actions[i].text.tpl \in {"Marked done (Notion): {task_id}", "Marked done: {task_id}"}
       /\ actions[i].text.args = <<id>>
    \/ actions[i].type = "edit" /\ actions[i].remove_task_id = id

\* the event repeats the mark-done the previous request confirmed
RepeatsMark(e) ==
  /\ MarkedId(e) # <<>>
  /\ MarkedId(ev) = MarkedId(e)
  /\ ~raised
  /\ MarkConfirmed(out, MarkedId(e))

\* one call of handle_event; in the relational store a row that was just
\* marked done no longer matches "done = FALSE", so the repeat updates nothing
HandleDoneEvent ==
  /\ pc = "idle"
  /\ \E e \in DoneEvents : \E oc \in OutcomesFor(e) : \E r \in {handle_event(e, oc)} :
       /\ r.seq <= MaxSeq
       /\ (RepeatsMark(e) /\ ~notion_enabled(oc) /\ db_enabled) => oc.res # "ok"
       /\ notes' = r.notes
       /\ tasks' = r.tasks
       /\ seq' = r.seq
       /\ pending' = r.pending
       /\ ev' = e
       /\ out' = r.out
       /\ raised' = r.raised
       /\ calls' = r.calls
       /\ answers' = oc
       /\ pc' = "exec"
  /\ UNCHANGED <<render_cache, env, sent>>
  /\ UNCHANGED extvars

\* the webhook executes the intents; the request stays visible as the last one
ExecuteDoneIntents ==
  /\ pc = "exec"
  /\ \E tx \in TransportsFor(out) :
       render_cache' = IF raised THEN render_cache ELSE ExecIntents(render_cache, 1, out, tx)
  /\ pc' = "idle"
  /\ UNCHANGED <<notes, tasks, seq, pending, env, ev, out, raised, calls, answers, sent>>
  /\ UNCHANGED extvars

NextDone == HandleDoneEvent \/ ExecuteDoneIntents

SpecDone == Init /\ [][NextDone]_vars

\* --------------------------------------- specification of task creation
\* "Title | Description" in one message
InlineText == <<"a", " ", "|", " ", "d">>

\* /todo alone, with a title and with "Title | Description", plain texts,
\* /today and /done from one chat; /todo from a second chat
TodoEvents ==
  { MkEvent("message", 1, 5, <<"/", "c">>,
            [NoRoute EXCEPT !.kind = "command", !.command = "todo", !.text = t], NoCallback) :
      t \in { <<>>, <<"a">>, InlineText } }
  \cup
  { MkEvent("message", 1, 5, t, [NoRoute EXCEPT !.kind = "text", !.text = t], NoCallback) :
      t \in { <<"0">>, <<"1">>, <<"d">> } }
  \cup
  { MkEvent("message", 1, 5, <<"/", "c">>,
            [NoRoute EXCEPT !.kind = "command", !.command = "today"], NoCallback),
    MkEvent("message", 1, 5, <<"/", "c">>,
            [NoRoute EXCEPT !.kind = "command", !.command = "done",
                            !.task_id = FormatId(TaskPrefix, 1)], NoCallback),
    MkEvent("message", 2, 5, <<"/", "c">>,
            [NoRoute EXCEPT !.kind = "command", !.command = "todo", !.text = <<"a">>], NoCallback) }

HandleTodoEvent == HandleEventIn(TodoEvents)

NextTodo == HandleTodoEvent \/ ExecuteDoneIntents

SpecTodo == Init /\ [][NextTodo]_vars

\* ------------------------------------------- specification of the router
\* the index of the first occurrence of ch in str, Len(str) + 1 when absent
RECURSIVE IndexOf(_, _, _)
IndexOf(str, ch, i) ==
  IF i > Len(str) THEN i
  ELSE IF str[i] = ch THEN i
  ELSE IndexOf(str, ch, i + 1)

\* str.split(None, 1)[0] of a stripped text
FirstWord(str) == SubSeq(str, 1, IndexOf(str, " ", 1) - 1)

\* the rest of str.split(None, 1), stripped
RestArgs(str) == Strip(SubSeq(str, IndexOf(str, " ", 1), Len(str)))

\* cmd_token.split("@", 1)[0]
BeforeAt(str) == SubSeq(str, 1, IndexOf(str, "@", 1) - 1)

\* faulty variant: the whole argument is the task reference
FirstTokenWhole(args) == args

\* args.split()[0]
FirstToken(args) == FirstWord(Strip(args))

SUPPORTED_COMMANDS ==
  { <<"n", "o", "t", "e">>, <<"t", "o", "d", "o">>, <<"t", "o", "d", "a", "y">>,
    <<"d", "o", "n", "e">>, <<"s", "e", "a", "r", "c", "h">>, <<"i", "n", "b", "o", "x">>,
    <<"s", "e", "t", "t", "i", "n", "g", "s">>, <<"s", "t", "a", "r", "t">>,
    <<"h", "e", "l", "p">> }

\* the commands that require an argument
NeedArgs ==
  { <<"n", "o", "t", "e">>, <<"t", "o", "d", "o">>, <<"s", "e", "a", "r", "c", "h">>,
    <<"d", "o", "n", "e">> }

Route0 ==
  [kind |-> "", command |-> <<>>, args |-> <<>>, text |-> <<>>, query |-> <<>>,
   task_id |-> <<>>, error |-> <<>>]

route_text(text) ==
  LET raw == Strip(text)
      first == FirstWord(raw)
      cmd_token == Tail(first)
      cmd_name == Lower(Strip(BeforeAt(cmd_token)))
      args == RestArgs(raw)
      cmd_out == [Route0 EXCEPT !.kind = "command", !.command = cmd_name, !.args = args]
  IN
  IF raw = <<>>
  THEN [Route0 EXCEPT !.kind = "error", !.error = <<"e", "m", "p", "t", "y", "_", "t", "e", "x", "t">>]
  ELSE IF raw[1] # "/" THEN [Route0 EXCEPT !.kind = "text", !.text = raw]
  ELSE IF cmd_token = <<>>
  THEN [Route0 EXCEPT !.kind = "error",
                      !.error = <<"m", "i", "s", "s", "i", "n", "g", "_", "c", "o", "m", "m", "a", "n", "d">>]
  ELSE IF cmd_name \in { <<"s", "t", "a", "r", "t">>, <<"h", "e", "l", "p">> }
  THEN [Route0 EXCEPT !.kind = "command", !.command = <<"h", "e", "l", "p">>, !.args = args]
  ELSE IF cmd_name \notin SUPPORTED_COMMANDS
  THEN [Route0 EXCEPT !.kind = "unknown_command", !.command = cmd_name, !.args = args]
  ELSE IF cmd_name \in NeedArgs /\ args = <<>>
  THEN [Route0 EXCEPT !.kind = "error",
                      !.error = <<"m", "i", "s", "s", "i", "n", "g", "_", "a", "r", "g", "s", "_">> \o cmd_name]
  ELSE IF cmd_name \in { <<"n", "o", "t", "e">>, <<"t", "o", "d", "o">> }
  THEN [cmd_out EXCEPT !.text = args]
  ELSE IF cmd_name = <<"s", "e", "a", "r", "c", "h">> THEN [cmd_out EXCEPT !.query = args]
  ELSE IF cmd_name = <<"d", "o", "n", "e">> THEN [cmd_out EXCEPT !.task_id = FirstToken(args)]
  ELSE cmd_out

\* command words as typed, with the command they spell in lower case
RouteNames ==
  { [txt |-> <<"n", "o", "t", "e">>, low |-> <<"n", "o", "t", "e">>],
    [txt |-> <<"N", "o", "t", "e">>, low |-> <<"n", "o", "t", "e">>],
    [txt |-> <<"s", "e", "a", "r", "c", "h">>, low |-> <<"s", "e", "a", "r", "c", "h">>],
    [txt |-> <<"S", "e", "a", "r", "c", "h">>, low |-> <<"s", "e", "a", "r", "c", "h">>],
    [txt |-> <<"d", "o", "n", "e">>, low |-> <<"d", "o", "n", "e">>],
    [txt |-> <<"D", "o", "n", "e">>, low |-> <<"d", "o", "n", "e">>],
    [txt |-> <<"t", "o", "d", "o">>, low |-> <<"t", "o", "d", "o">>],
    [txt |-> <<"t", "o", "d", "a", "y">>, low |-> <<"t", "o", "d", "a", "y">>],
    [txt |-> <<"c", "a", "n", "c", "e", "l">>, low |-> <<"c", "a", "n", "c", "e", "l">>],
    [txt |-> <<"z">>, low |-> <<"z">>] }

RouteHandles == { <<>>, <<"@", "b">>, <<"@", "B", "o", "t">> }

\* the argument words of a command text
RouteArgs == { <<>>, << <<"a">> >>, << <<"a">>, <<"b">> >>, << P1, <<"x">>, <<"1">> >> }

RoutePads == { <<" ">>, <<" ", " ">> }

\* each word preceded by the padding
RECURSIVE JoinWords(_, _)
JoinWords(words, pad) ==
  IF words = <<>> THEN <<>> ELSE pad \o Head(words) \o JoinWords(Tail(words), pad)

\* "<lead>/<name><handle>( <word>)*<trail>"
ComposeText(lead, name, handle, words, pad, trail) ==
  lead \o <<"/">> \o name \o handle \o JoinWords(words, pad) \o trail

RouteTexts ==
  { ComposeText(lead, n.txt, h, w, pad, trail) :
      lead \in { <<>>, <<" ">> }, n \in RouteNames, h \in RouteHandles,
      w \in RouteArgs, pad \in RoutePads, trail \in { <<>>, <<" ">> } }
  \cup { <<>>, <<" ">>, <<"a">>, <<"/">>, <<"/", " ", "a">>, <<"/", "@", "b">> }

\* normalize_update: an incoming message text is routed
RouteText ==
  /\ pc = "idle"
  /\ \E t \in RouteTexts : ev' = MkEvent("message", 1, 5, t, route_text(t), NoCallback)
  /\ UNCHANGED <<notes, tasks, seq, render_cache, pending, env, out, raised, calls, answers, sent, pc>>
  /\ UNCHANGED extvars

SpecRoute == Init /\ [][RouteText]_vars

\* ------------------------------------------------------------- properties
\* a step that is one call of handle_event; ev' is the event it handled
Handled == pc = "idle" /\ pc' = "exec"

\* the task list cached for a chat message ([] when there is no entry)
CachedAt(c, m) ==
  IF <<c, m>> \in DOMAIN render_cache THEN render_cache[<<c, m>>].tasks ELSE <<>>

\* a message that is plain text: routed as text (or not routed) and not a command
PlainText(e) ==
  e.type = "message" /\ e.route.kind \in {"none", "text"} /\ ~StartsWithSlash(Strip(e.text))

\* the pick-flow entry of the chat of event e has this mode
PendingMode(e, modes) ==
  IsInt(e.chat_id) /\ e.chat_id \in DOMAIN pending /\ pending[e.chat_id].mode \in modes

\* the calls of one operation among the backend calls of a handle_event call
CallsOf(cs, op) == SelectSeq(cs, LAMBDA x : x.op = op)

\* the note/task operations of a backend
NoteTaskOps ==
  {"create_note", "create_task", "list_open_tasks", "mark_task_done",
   "update_task_title", "search", "search_notes_tasks"}

\* every collaborator answered without failure during the call
AllSucceeded(a) == a.res = "ok" /\ a.init = "ok"

\* the backend the configuration selects, decided from the environment and
\* the settings answers alone
Present(v) == \E i \in 1..Len(v) : v[i] # " "

SelectedBackend(a) ==
  LET url == Present(env.DATABASE_URL)
      notes_id == Present(env.NOTION_NOTES_DB_ID)
                    \/ (url /\ a.init = "ok" /\ Present(a.s_notes))
      tasks_id == Present(env.NOTION_TASKS_DB_ID)
                    \/ (url /\ a.init = "ok" /\ Present(a.s_tasks))
  IN
  IF Present(env.NOTION_TOKEN) /\ notes_id /\ tasks_id THEN "notion"
  ELSE IF url THEN "db" ELSE "mem"

\* a valid item number for the list the pending entry points at
ValidPick(e) ==
  /\ IsDigitStr(Strip(e.text))
  /\ ToInt(Strip(e.text)) >= 1
  /\ ToInt(Strip(e.text)) <= Len(CachedAt(e.chat_id, pending[e.chat_id].source_message_id))

PickedId(e) == CachedAt(e.chat_id, pending[e.chat_id].source_message_id)[ToInt(Strip(e.text))].id

C1_PickDoneStarts ==
  (Handled /\ ev'.type = "callback" /\ IsInt(ev'.chat_id) /\ IsInt(ev'.message_id)
     /\ ev'.callback.kind # "error" /\ ev'.callback.action = "pick_done"
     /\ Len(CachedAt(ev'.chat_id, ev'.message_id)) >= 1)
  => /\ ev'.chat_id \in DOMAIN pending'
     /\ pending'[ev'.chat_id].mode = "done_pick"
     /\ pending'[ev'.chat_id].source_message_id = ev'.message_id

C1_ReplyMarksDone ==
  (Handled /\ PlainText(ev') /\ PendingMode(ev', {"done_pick"}) /\ ValidPick(ev')
     /\ AllSucceeded(answers'))
  => /\ Len(CallsOf(calls', "mark_task_done")) = 1
     /\ CallsOf(calls', "mark_task_done")[1].id = PickedId(ev')
     /\ CallsOf(calls', "mark_task_done")[1].backend = SelectedBackend(answers')
     /\ ev'.chat_id \notin DOMAIN pending'
     /\ ~raised'
     /\ Len(out') = 1
     /\ out'[1].type = "edit"
     /\ out'[1].chat_id = ev'.chat_id
     /\ out'[1].message_id = pending[ev'.chat_id].source_message_id
     /\ out'[1].edit = "remove"
     /\ out'[1].remove_task_id = PickedId(ev')

\* C1: a pick_done callback on a cached list message starts a done_pick entry
\* for that message, and a valid item number k then marks the k-th cached task
\* done on the active backend exactly once, removes the entry and returns one
\* edit intent removing that task from the source message.
C1_DonePickFlow == [][C1_PickDoneStarts /\ C1_ReplyMarksDone]_vars

\* C1 witness: the reply "2" to a two-task list was answered with the edit
W_C1 ==
  /\ pc = "exec" /\ ev.type = "message" /\ Strip(ev.text) = <<"2">>
  /\ Len(out) = 1 /\ out[1].type = "edit" /\ out[1].remove_task_id = P2
  /\ Len(CallsOf(calls, "mark_task_done")) = 1
  /\ ev.chat_id \notin DOMAIN pending
  /\ Len(CachedAt(ev.chat_id, out[1].message_id)) = 2

\* the note/task operations among the backend calls of a handle_event call
NoteTaskCalls(cs) == SelectSeq(cs, LAMBDA x : x.op \in NoteTaskOps)

\* the intents of one type
IntentsOf(intents, ty) == SelectSeq(intents, LAMBDA a : a.type = ty)

\* the call returned exactly one reply and nothing else
OneReply(intents) == Len(intents) = 1 /\ intents[1].type = "reply"

C2_NumberAsksForText ==
  (Handled /\ PlainText(ev') /\ PendingMode(ev', {"edit_pick"}) /\ ValidPick(ev'))
  => /\ ev'.chat_id \in DOMAIN pending'
     /\ pending'[ev'.chat_id].mode = "edit_new_text"
     /\ pending'[ev'.chat_id].task_id = PickedId(ev')
     /\ pending'[ev'.chat_id].item_number = ToInt(Strip(ev'.text))
     /\ pending'[ev'.chat_id].source_message_id = pending[ev'.chat_id].source_message_id
     /\ NoteTaskCalls(calls') = <<>>
     /\ OneReply(out')

C2_TextUpdatesTitle ==
  (Handled /\ PlainText(ev') /\ PendingMode(ev', {"edit_new_text"}) /\ Strip(ev'.text) # <<>>
     /\ answers'.res # "raise" /\ answers'.init = "ok")
  => /\ Len(CallsOf(calls', "update_task_title")) = 1
     /\ CallsOf(calls', "update_task_title")[1].id = pending[ev'.chat_id].task_id
     /\ CallsOf(calls', "update_task_title")[1].text = Strip(ev'.text)
     /\ ev'.chat_id \notin DOMAIN pending'
     /\ Len(out') = 1
     /\ out'[1].type = "edit"
     /\ out'[1].chat_id = ev'.chat_id
     /\ out'[1].message_id = pending[ev'.chat_id].source_message_id
     /\ out'[1].edit = "update"
     /\ out'[1].update_id = pending[ev'.chat_id].task_id
     /\ out'[1].update_title = Strip(ev'.text)

C2_NoOtherPath ==
  /\ (Handled /\ IsInt(ev'.chat_id) /\ ev'.chat_id \in DOMAIN pending'
        /\ pending'[ev'.chat_id].mode = "edit_new_text"
        /\ ~PendingMode(ev', {"edit_new_text"}))
     => (PendingMode(ev', {"edit_pick"}) /\ PlainText(ev') /\ ValidPick(ev'))
  /\ (Handled /\ (CallsOf(calls', "update_task_title") # <<>>
                    \/ \E i \in 1..Len(out') : out'[i].edit = "update"))
     => PendingMode(ev', {"edit_new_text"})

\* C2: in mode edit_pick a valid item number k moves the entry to
\* edit_new_text with the k-th cached task's id, item_number k and the same
\* source message, calling no backend; the next non-empty plain text T calls
\* title-update once with (id, T), removes the entry and returns one edit
\* intent with update_task {id, title T}; a title update happens on no other path.
C2_EditPickFlow == [][C2_NumberAsksForText /\ C2_TextUpdatesTitle /\ C2_NoOtherPath]_vars

\* C2, the case the code gets wrong: with the relational store active the new
\* title "a" is confirmed by an edit intent although no title update was called
W_C2 ==
  /\ pc = "exec" /\ ev.type = "message" /\ Strip(ev.text) = <<"a">>
  /\ Len(out) = 1 /\ out[1].type = "edit" /\ out[1].edit = "update"
  /\ out[1].update_title = <<"a">>
  /\ CallsOf(calls, "update_task_title") = <<>>
  /\ ev.chat_id \notin DOMAIN pending

\* a reply that is no valid item number: not a digit string, 0, or above n
InvalidPick(e) ==
  \/ ~IsDigitStr(Strip(e.text))
  \/ ToInt(Strip(e.text)) = 0
  \/ ToInt(Strip(e.text)) > Len(CachedAt(e.chat_id, pending[e.chat_id].source_message_id))

C3_Step ==
  (Handled /\ PlainText(ev') /\ PendingMode(ev', {"done_pick", "edit_pick"})
     /\ Len(CachedAt(ev'.chat_id, pending[ev'.chat_id].source_message_id)) >= 1
     /\ InvalidPick(ev'))
  => /\ OneReply(out')
     /\ ~raised'
     /\ pending' = pending
     /\ render_cache' = render_cache
     /\ notes' = notes
     /\ tasks' = tasks
     /\ seq' = seq
     /\ NoteTaskCalls(calls') = <<>>

C4_Step ==
  (Handled /\ ev'.type = "message" /\ IsInt(ev'.chat_id) /\ ev'.chat_id \in DOMAIN pending
     /\ StartsWithSlash(Strip(ev'.text)))
  => /\ ev'.chat_id \notin DOMAIN pending'
     /\ CallsOf(calls', "mark_task_done") = <<>>
     /\ CallsOf(calls', "update_task_title") = <<>>
     /\ IntentsOf(out', "edit") = <<>>

\* C4: whenever pending[chat] exists and a message arrives whose text begins
\* with "/", pending[chat] is absent afterwards, no mark-done and no
\* title-update is invoked and no edit intent is returned, whatever the
\* pre-routed kind of the message.
C4_CommandResetsPending == [][C4_Step]_vars

\* replies that tell the user the flow was cancelled
CancelledTemplates == {"Cancelled."}

C5_Step ==
  (Handled /\ ev'.type = "message" /\ IsInt(ev'.chat_id)
     /\ ev'.route.kind = "command" /\ ev'.route.command = "cancel")
  => /\ ev'.chat_id \notin DOMAIN pending'
     /\ NoteTaskCalls(calls') = <<>>
     /\ OneReply(out')
     /\ out'[1].text.tpl \in CancelledTemplates

\* C5: a /cancel command message removes pending[chat] (and the wizard
\* entry), invokes no backend operation and returns a reply whose text
\* contains "Cancelled".
C5_CancelClears == [][C5_Step]_vars

\* the write of a pending flow was attempted on Notion or the relational store
\* and reported failure
C6_WriteFailed ==
  /\ Handled /\ PlainText(ev') /\ answers'.res = "fail" /\ answers'.init = "ok"
  /\ \/ /\ PendingMode(ev', {"done_pick"}) /\ ValidPick(ev')
        /\ \E i \in 1..Len(calls') :
             calls'[i].op = "mark_task_done" /\ calls'[i].backend \in {"notion", "db"}
     \/ /\ PendingMode(ev', {"edit_new_text"}) /\ Strip(ev'.text) # <<>>
        /\ \E i \in 1..Len(calls') :
             calls'[i].op = "update_task_title" /\ calls'[i].backend \in {"notion", "db"}

C6_Step ==
  C6_WriteFailed
  => /\ OneReply(out')
     /\ IntentsOf(out', "edit") = <<>>
     /\ pending' = pending

\* C6: when the write of a pending flow fails (mark-done in done_pick, or
\* title-update in edit_new_text, reports failure) handle_event returns a
\* reply, returns no edit intent and leaves pending[chat] as it was.
C6_FailedWriteKeepsPending == [][C6_Step]_vars

C7_Step ==
  (Handled /\ PlainText(ev') /\ PendingMode(ev', {"done_pick", "edit_pick"})
     /\ IsDigitStr(Strip(ev'.text))
     /\ CachedAt(ev'.chat_id, pending[ev'.chat_id].source_message_id) = <<>>)
  => /\ ev'.chat_id \notin DOMAIN pending'
     /\ NoteTaskCalls(calls') = <<>>
     /\ ~raised'
     /\ OneReply(out')
     /\ out'[1].chat_id = ev'.chat_id
     /\ out'[1].text.tpl = "Task list expired. Run /today or /inbox again."
     /\ notes' = notes /\ tasks' = tasks /\ seq' = seq

C8_NeverRaises == raised = FALSE

C9_Step ==
  (Handled /\ (ev'.type \notin {"message", "callback"} \/ ev'.chat_id = NoneVal))
  => /\ out' = <<>>
     /\ ~raised'
     /\ calls' = <<>>
     /\ notes' = notes
     /\ tasks' = tasks
     /\ seq' = seq
     /\ render_cache' = render_cache
     /\ pending' = pending

\* C9: an event whose type is neither message nor callback, or whose chat_id
\* is not an integer, makes handle_event return the empty list, call no
\* backend and leave notes, tasks, seq, render_cache and pending unchanged.
C9_IllTypedIgnored == [][C9_Step]_vars

\* C9 witness: a message without a chat id was ignored while the state held a
\* pick-flow entry and a stored note or task
W_C9 ==
  /\ pc = "exec" /\ ev.type = "message" /\ ev.chat_id = NoneVal
  /\ out = <<>> /\ calls = <<>>
  /\ pending # EmptyDict
  /\ seq > 0

\* the operations dispatched through the selected backend
DispatchedOps ==
  {"create_note", "create_task", "list_open_tasks", "mark_task_done", "update_task_title"}

C10_Step ==
  Handled
  => \A i \in 1..Len(calls') :
       calls'[i].op \in DispatchedOps => calls'[i].backend = SelectedBackend(answers')

\* C10: the backend of every call is decided from the configuration as it is
\* when the call starts: Notion iff token, notes id and tasks id are all
\* present, else the relational store iff its URL is present, else memory;
\* a configuration changed between two events changes the backend of the second.
C10_BackendFromConfig == [][C10_Step]_vars

\* C10 witness: a list was cached through Notion, the configuration changed,
\* and the next call went to another backend
W_C10 ==
  /\ pc = "exec"
  /\ render_cache # EmptyDict
  /\ \E i \in 1..Len(calls) :
       calls[i].op \in DispatchedOps /\ calls[i].backend \in {"db", "mem"}

\* the in-memory list of a chat ([] when the chat has no bucket yet)
ListOf(d, c) == IF c \in DOMAIN d THEN d[c] ELSE <<>>

\* the in-memory lists hold the same items before and after the step
SameLists(d1, d2) == \A c \in (DOMAIN d1) \cup (DOMAIN d2) : ListOf(d1, c) = ListOf(d2, c)

C11_Step ==
  Handled
  => /\ \A i \in 1..Len(calls') :
          calls'[i].op \in NoteTaskOps => calls'[i].backend = SelectedBackend(answers')
     /\ (SelectedBackend(answers') \in {"notion", "db"}
           => SameLists(notes, notes') /\ SameLists(tasks, tasks') /\ seq' = seq)

\* C11: within one handle_event call every note/task operation (create, list,
\* mark done, update title, search) goes to the one backend selected for the
\* call, and with Notion or the relational store selected the in-memory lists
\* are neither read nor written; /search looks where /note and /todo store.
C11_SingleBackend == [][C11_Step]_vars

\* a message that captures text T as a note: the note command, or plain text
NoteText(e) ==
  IF e.route.kind = "command" THEN Strip(e.route.text)
  ELSE IF e.route.kind = "text" THEN Strip(e.route.text)
  ELSE Strip(e.text)

CapturesNote(e) ==
  /\ e.type = "message" /\ IsInt(e.chat_id)
  /\ \/ e.route.kind = "command" /\ e.route.command = "note"
     \/ PlainText(e)
  /\ NoteText(e) # <<>>

C12_Step ==
  (Handled /\ CapturesNote(ev') /\ SelectedBackend(answers') = "mem"
     /\ ev'.chat_id \notin DOMAIN pending)
  => /\ Len(ListOf(notes', ev'.chat_id)) = Len(ListOf(notes, ev'.chat_id)) + 1
     /\ SubSeq(notes'[ev'.chat_id], 1, Len(ListOf(notes, ev'.chat_id))) = ListOf(notes, ev'.chat_id)
     /\ notes'[ev'.chat_id][Len(notes'[ev'.chat_id])].text = NoteText(ev')
     /\ seq' = seq + 1
     /\ \A c \in ((DOMAIN notes) \cup (DOMAIN notes')) \ {ev'.chat_id} :
          ListOf(notes', c) = ListOf(notes, c)
     /\ SameLists(tasks, tasks')
     /\ ~raised'
     /\ OneReply(out')
     /\ out'[1].text.tpl = "Saved note: {nid}"
     /\ out'[1].text.args = <<notes'[ev'.chat_id][Len(notes'[ev'.chat_id])].id>>

\* C12: with no backend configured and no pending entry for the chat, a
\* message routed as the note command or as plain text with non-empty text T
\* appends exactly one Note with text T to the end of notes[chat], increases
\* seq by 1, leaves tasks and other chats' notes unchanged and returns one
\* reply "Saved note: <id of the new note>".
C12_MemoryNoteCapture == [][C12_Step]_vars

\* C12 witness: the plain text "a" became the second note of its chat
W_C12 ==
  /\ pc = "exec" /\ ev.type = "message" /\ ev.route.kind = "text" /\ ev.text = <<"a">>
  /\ Len(ListOf(notes, ev.chat_id)) = 2
  /\ notes[ev.chat_id][2].text = <<"a">>
  /\ OneReply(out) /\ out[1].text.tpl = "Saved note: {nid}"
  /\ out[1].text.args = <<notes[ev.chat_id][2].id>>

C13_Step ==
  (Handled /\ ev'.type = "message" /\ IsInt(ev'.chat_id)
     /\ ev'.route.kind \in {"text", "none"} /\ StartsWithSlash(Strip(ev'.text)))
  => /\ ListOf(notes', ev'.chat_id) = ListOf(notes, ev'.chat_id)
     /\ CallsOf(calls', "create_note") = <<>>
     /\ OneReply(out')
     /\ out'[1].text.tpl = "Unknown command: /{command} (try /help)"

\* C13: a message whose text starts with "/" is never stored as a note, even
\* when it arrives routed as text: the reply is an "Unknown command" message
\* and notes[chat] is unchanged.
C13_SlashTextNotCaptured == [][C13_Step]_vars

\* positions of the items stored in the in-memory lists
Positions(d) == UNION { { <<c, i>> : i \in 1..Len(d[c]) } : c \in DOMAIN d }

StoredCount == Cardinality(Positions(notes)) + Cardinality(Positions(tasks))

\* the ids of all in-memory notes and tasks are pairwise distinct
DistinctIds ==
  /\ \A p, q \in Positions(notes) : p # q => notes[p[1]][p[2]].id # notes[q[1]][q[2]].id
  /\ \A p, q \in Positions(tasks) : p # q => tasks[p[1]][p[2]].id # tasks[q[1]][q[2]].id
  /\ \A p \in Positions(notes) : \A q \in Positions(tasks) :
       notes[p[1]][p[2]].id # tasks[q[1]][q[2]].id

C14_Step ==
  /\ seq' >= seq
  /\ seq' - seq \in {0, 1}
  /\ StoredCount' - StoredCount = seq' - seq

\* C14: the in-memory sequence counter never decreases and is never reset, it
\* grows by exactly 1 for each in-memory note or task created, and the ids of
\* all in-memory notes and tasks of all chats are pairwise distinct.
C14_SeqMonotonicIdsDistinct == []DistinctIds /\ [][C14_Step]_vars

\* C14 witness: two chats each hold an item and the counter stands at 2
W_C14 ==
  /\ seq = 2 /\ StoredCount = 2
  /\ \E c1, c2 \in DOMAIN notes :
       c1 # c2 /\ Len(notes[c1]) + Len(tasks[c1]) = 1 /\ Len(notes[c2]) + Len(tasks[c2]) = 1

C15_Step ==
  \A c \in DOMAIN tasks :
    /\ c \in DOMAIN tasks'
    /\ Len(tasks'[c]) >= Len(tasks[c])
    /\ \A i \in 1..Len(tasks[c]) :
         /\ tasks'[c][i].id = tasks[c][i].id
         /\ (tasks[c][i].done => tasks'[c][i].done)

\* C15: once an in-memory task has done = true it keeps it in every later
\* state, and no event removes a task from tasks[chat].
C15_DoneMonotonic == [][C15_Step]_vars

\* C15 witness: /done was sent again for a task that is already done
W_C15 ==
  /\ pc = "exec" /\ IsInt(ev.chat_id) /\ ev.chat_id \in DOMAIN tasks
  /\ OneReply(out) /\ out[1].text.tpl = "{task_id} is already done."
  /\ \E i \in 1..Len(tasks[ev.chat_id]) :
       tasks[ev.chat_id][i].done /\ tasks[ev.chat_id][i].id = Strip(route_(ev).task_id)

\* ------------------------------------------------- the task-list messages
HasPrefix(str, p) == Len(str) >= Len(p) /\ SubSeq(str, 1, Len(p)) = p

HasSuffix(str, p) == Len(str) >= Len(p) /\ SubSeq(str, Len(str) - Len(p) + 1, Len(str)) = p

\* a /today or /inbox call that fetched a non-empty list from Notion
ListFetched ==
  /\ Handled
  /\ ev'.type = "message"
  /\ route_(ev').kind = "command"
  /\ route_(ev').command \in {"today", "inbox"}
  /\ SelectedBackend(answers') = "notion"
  /\ CallsOf(calls', "list_open_tasks") # <<>>
  /\ ~raised'
  /\ answers'.list # <<>>

\* the numbered lines of a list text
LinesOf(list_kind, text) == IF list_kind = "today" THEN Tail(text.args) ELSE text.args

\* C17: in Notion mode /today and /inbox with a non-empty result return
\* exactly two intents, in this order: a reply carrying the one-row keyboard
\* (Done -> pick_done, Edit -> pick_edit), then a cache_task_list for the same
\* chat whose list_kind is the command, whose tasks has one entry per numbered
\* line of the reply in the same order (line k is the k-th task), and whose
\* text equals the reply text.
C17_Step ==
  ListFetched =>
    /\ Len(out') = 2
    /\ out'[1].type = "reply"
    /\ out'[1].chat_id = ev'.chat_id
    /\ out'[1].reply_markup = TwoButtons
    /\ out'[2].type = "cache_task_list"
    /\ out'[2].chat_id = ev'.chat_id
    /\ out'[2].list_kind = route_(ev').command
    /\ out'[2].text = out'[1].text
    /\ LET lines == LinesOf(out'[2].list_kind, out'[1].text) IN
       /\ Len(out'[2].tasks) = Len(lines)
       /\ Len(lines) = Len(answers'.list)
       /\ \A k \in 1..Len(lines) :
            /\ HasPrefix(lines[k], DecStr(k) \o <<".", " ">>)
            /\ HasSuffix(lines[k], out'[2].tasks[k].title)
            /\ out'[2].tasks[k].id = answers'.list[k].id

C17_ListReplyAndCache == [][C17_Step]_vars

W_C17 ==
  /\ pc = "exec"
  /\ ev.type = "message"
  /\ route_(ev).command = "inbox"
  /\ SelectedBackend(answers) = "notion"
  /\ Len(answers.list) = 3
  /\ Len(out) = 2
  /\ out[2].type = "cache_task_list"
  /\ Len(out[2].tasks) = 3
  /\ out[2].text = out[1].text

\* the order of the characters of the titles
CharRank(ch) ==
  CASE ch = "a" -> 1 [] ch = "b" -> 2 [] ch = "c" -> 3 [] ch = "d" -> 4 [] OTHER -> 0

RECURSIVE StrLeq(_, _)
StrLeq(a, b) ==
  IF a = <<>> THEN TRUE
  ELSE IF b = <<>> THEN FALSE
  ELSE IF a[1] = b[1] THEN StrLeq(Tail(a), Tail(b))
  ELSE CharRank(a[1]) < CharRank(b[1])

\* (title, description), compared without regard to case
KeyLeq(t, u) ==
  IF Lower(Strip(t.title)) = Lower(Strip(u.title))
  THEN StrLeq(Lower(t.description), Lower(u.description))
  ELSE StrLeq(Lower(Strip(t.title)), Lower(Strip(u.title)))

\* the fetched task a cached task was rendered from
FetchedFor(list, r) == CHOOSE t \in {list[i] : i \in 1..Len(list)} : t.id = r.id /\ Strip(t.title) = r.title

\* "n. title | description", or "n. title" without a description
NumberedLine(n, t) ==
  DecStr(n) \o <<".", " ">> \o Strip(t.title)
    \o (IF t.description # <<>> THEN <<" ", "|", " ">> \o t.description ELSE <<>>)

\* C18: the Notion /today and /inbox lists are ordered by (title,
\* description), compared case-insensitively; the lines are numbered 1, 2, ...
\* in that order; a line is "n. title | description" when the task has a
\* description and "n. title" otherwise; no task id appears in the text.
C18_Step ==
  ListFetched =>
    LET cached == out'[Len(out')].tasks
        lines == LinesOf(route_(ev').command, out'[1].text)
        src(k) == FetchedFor(answers'.list, cached[k])
    IN
    /\ Len(lines) = Len(cached)
    /\ \A k \in 1..(Len(cached) - 1) : KeyLeq(src(k), src(k + 1))
    /\ \A k \in 1..Len(cached) : lines[k] = NumberedLine(k, src(k))

C18_ListSortedWithDescription == [][C18_Step]_vars

\* the intents hold a reply and a task list to cache for its chat
ReplyWithList(c) ==
  /\ \E i \in 1..Len(out) : out[i].type = "reply" /\ out[i].chat_id = c
  /\ \E j \in 1..Len(out) : out[j].type = "cache_task_list" /\ out[j].chat_id = c

\* the webhook executes the intents handle_event returned
Executed == pc = "exec" /\ pc' = "idle" /\ ~raised

\* the first cache_task_list intent for the chat
FirstList(c) ==
  out[CHOOSE j \in 1..Len(out) :
        /\ out[j].type = "cache_task_list" /\ out[j].chat_id = c
        /\ \A i \in 1..(j - 1) : ~(out[i].type = "cache_task_list" /\ out[i].chat_id = c)]

\* every entry but the one under key is as before
OthersKept(key) ==
  /\ (DOMAIN render_cache') \ {key} = (DOMAIN render_cache) \ {key}
  /\ \A k \in (DOMAIN render_cache) \ {key} : render_cache'[k] = render_cache[k]

\* C19: when the webhook executes a reply that comes with a cache_task_list
\* for the same chat and the send returns message id m, render_cache[(chat, m)]
\* holds exactly the list_kind, tasks and text of that intent; when the send
\* fails or returns no message id, no entry is created or changed.
C19_Step ==
  \A c \in {1, 2} :
    (Executed /\ ReplyWithList(c)) =>
      IF sent'.send = "ok" /\ sent'.mid # NoneVal
      THEN /\ <<c, sent'.mid>> \in DOMAIN render_cache'
           /\ render_cache'[<<c, sent'.mid>>] =
                [list_kind |-> FirstList(c).list_kind, tasks |-> FirstList(c).tasks,
                 text |-> FirstList(c).text]
           /\ OthersKept(<<c, sent'.mid>>)
      ELSE render_cache' = render_cache

C19_CacheKeyedByMessage == [][C19_Step]_vars

W_C19 ==
  /\ pc = "idle"
  /\ sent.send = "ok"
  /\ sent.mid = 8
  /\ <<1, 8>> \in DOMAIN render_cache
  /\ render_cache[<<1, 8>>].list_kind = "inbox"
  /\ Len(render_cache[<<1, 8>>].tasks) = 3
  /\ <<1, 7>> \in DOMAIN render_cache

\* the intents are one edit of a message that has a cached list
EditOfCached(a) ==
  /\ Len(out) = 1
  /\ a = out[1]
  /\ a.type = "edit"
  /\ <<a.chat_id, a.message_id>> \in DOMAIN render_cache

\* C20: executing an edit intent with remove_task_id r on (chat, m) that has
\* a cache entry replaces the entry's tasks by the old tasks without those
\* whose id is r, in the old order; when none is left the entry is deleted;
\* the entries of other messages are unchanged.
C20_Step ==
  \A a \in {out[i] : i \in 1..Len(out)} :
    (Executed /\ EditOfCached(a)) =>
      LET key == <<a.chat_id, a.message_id>>
          kept == SelectSeq(render_cache[key].tasks, LAMBDA t : t.id # a.remove_task_id)
      IN
      /\ OthersKept(key)
      /\ IF kept = <<>>
         THEN key \notin DOMAIN render_cache'
         ELSE /\ key \in DOMAIN render_cache'
              /\ render_cache'[key].tasks = kept
              /\ render_cache'[key].list_kind = render_cache[key].list_kind

C20_EditRemovesFromCache == [][C20_Step]_vars

\* a list of three was cut to two by an edit, next to another message's list
W_C20 ==
  /\ pc = "idle"
  /\ <<1, 7>> \in DOMAIN render_cache
  /\ <<1, 8>> \in DOMAIN render_cache
  /\ render_cache[<<1, 7>>].list_kind = "today"
  /\ Len(render_cache[<<1, 7>>].tasks) = 2
  /\ render_cache[<<1, 7>>].text.args[2][1] = "-"
  /\ render_cache[<<1, 7>>].tasks[1].id = P2
  /\ render_cache[<<1, 7>>].tasks[2].id = P3

\* C16: marking done is idempotent: a second mark-done request for a task
\* that was just marked done (by /done or by the done callback) leaves the
\* stored tasks unchanged and is not confirmed again: no "Marked done" reply
\* and no edit intent with remove_task_id for that task is returned.
C16_Step ==
  (Handled /\ MarkedId(ev') # <<>> /\ MarkedId(ev) = MarkedId(ev')
     /\ ~raised /\ MarkConfirmed(out, MarkedId(ev)) /\ ~raised')
    => /\ SameLists(tasks, tasks')
       /\ ~MarkConfirmed(out', MarkedId(ev'))

C16_MarkDoneIdempotent == [][C16_Step]_vars

\* C21: a render_cache entry changes only together with a successful edit of
\* its message: when the transport's edit call for (chat, m) fails, the entry
\* of (chat, m) is the same after the webhook call as before it.
C21_Step ==
  \A a \in {out[i] : i \in 1..Len(out)} :
    (Executed /\ EditOfCached(a) /\ sent'.edit = "fail") =>
      /\ <<a.chat_id, a.message_id>> \in DOMAIN render_cache'
      /\ render_cache'[<<a.chat_id, a.message_id>>] = render_cache[<<a.chat_id, a.message_id>>]

C21_CacheFollowsSuccessfulEdit == [][C21_Step]_vars

\* C23: after an edit intent with remove_task_id is executed and k >= 1 tasks
\* remain, the message is rendered again in the format of the original list:
\* the count k in the header, lines numbered 1..k in the order of the
\* remaining cached tasks, and no task id in the text.
C23_Step ==
  \A a \in {out[i] : i \in 1..Len(out)} :
    LET key == <<a.chat_id, a.message_id>>
        kept == SelectSeq(render_cache[key].tasks, LAMBDA t : t.id # a.remove_task_id)
    IN
    (Executed /\ EditOfCached(a) /\ a.remove_task_id # <<>> /\ kept # <<>>) =>
      /\ key \in DOMAIN render_cache'
      /\ LET kind == render_cache'[key].list_kind
             txt == render_cache'[key].text
             lines == LinesOf(kind, txt)
         IN
         /\ (kind = "today" => txt.args[1] = DecStr(Len(kept)))
         /\ Len(lines) = Len(kept)
         /\ \A j \in 1..Len(lines) :
              /\ HasPrefix(lines[j], DecStr(j) \o <<".", " ">>)
              /\ HasSuffix(lines[j], kept[j].title)
              /\ ~Contains(lines[j], kept[j].id)

C23_EditKeepsListFormat == [][C23_Step]_vars

\* the position of the task with that id in a cached list (0 when absent)
CachedIndex(list, id) ==
  IF \E i \in 1..Len(list) : list[i].id = id
  THEN CHOOSE i \in 1..Len(list) : list[i].id = id /\ \A j \in 1..(i - 1) : list[j].id # id
  ELSE 0

\* C22: executing an edit intent with update_task {id, title} on a message
\* (chat, m) that has a render_cache entry sets the title of the cached task
\* with that id, removes no task, leaves every other cached task and the
\* order unchanged, and renders the message again from the updated list, so
\* the cache holds the new title and its text shows it.
C22_Step ==
  \A a \in {out[i] : i \in 1..Len(out)} :
    LET key == <<a.chat_id, a.message_id>>
        old == render_cache[key].tasks
        k == CachedIndex(old, a.update_id)
    IN
    (Executed /\ EditOfCached(a) /\ a.update_id # <<>> /\ k # 0) =>
      /\ key \in DOMAIN render_cache'
      /\ Len(render_cache'[key].tasks) = Len(old)
      /\ \A i \in 1..Len(old) :
           /\ render_cache'[key].tasks[i].id = old[i].id
           /\ i # k => render_cache'[key].tasks[i] = old[i]
      /\ render_cache'[key].tasks[k].title = a.update_title
      /\ \E j \in 1..Len(render_cache'[key].text.args) :
           HasSuffix(render_cache'[key].text.args[j], a.update_title)

C22_EditUpdatesCachedTask == [][C22_Step]_vars

\* ---------------------------------------------------------- task creation
\* a /todo command message
IsTodo(e) == e.type = "message" /\ route_(e).kind = "command" /\ route_(e).command = "todo"

TodoArg(e) == Strip(route_(e).text)

\* the text holds the "Title | Description" separator
HasSeparator(t) == Contains(t, <<" ", "|", " ">>)

\* a plain text that is not blank
SaysText(e) == PlainText(e) /\ e.route.kind = "text" /\ Strip(e.text) # <<>>

\* the previous request was /todo with a bare title, handled in Notion mode
TitleGiven ==
  /\ IsTodo(ev) /\ TodoArg(ev) # <<>> /\ ~HasSeparator(TodoArg(ev))
  /\ SelectedBackend(answers) = "notion" /\ ~raised

\* the previous request was /todo alone, handled in Notion mode
PickerShown ==
  IsTodo(ev) /\ TodoArg(ev) = <<>> /\ SelectedBackend(answers) = "notion" /\ ~raised

\* C24: two-step task creation in Notion mode: /todo T with a title and no
\* " | " separator creates no task and no traceability record (the title is
\* kept and the description asked for); the next plain-text message D of the
\* chat creates exactly one task with title T and replies "Added: T | D".
C24_Step ==
  /\ (Handled /\ IsTodo(ev') /\ TodoArg(ev') # <<>> /\ ~HasSeparator(TodoArg(ev'))
        /\ SelectedBackend(answers') = "notion" /\ ~raised')
       => /\ CallsOf(calls', "create_task") = <<>>
          /\ CallsOf(calls', "save_message_map") = <<>>
          /\ OneReply(out')
  /\ (Handled /\ TitleGiven /\ SaysText(ev') /\ ev'.chat_id = ev.chat_id
        /\ SelectedBackend(answers') = "notion" /\ answers'.res = "ok" /\ ~raised')
       => /\ Len(CallsOf(calls', "create_task")) = 1
          /\ CallsOf(calls', "create_task")[1].text = TodoArg(ev)
          /\ CallsOf(calls', "create_note") = <<>>
          /\ OneReply(out')
          /\ out'[1].text.args = <<TodoArg(ev), Strip(ev'.text)>>

C24_TwoStepCreation == [][C24_Step]_vars

\* C25: in Notion mode /todo with no argument fetches the existing distinct
\* task titles from the backend, replies with a numbered picker that starts
\* with "0. New Title", and creates no task.
C25_Step ==
  (Handled /\ IsTodo(ev') /\ TodoArg(ev') = <<>>
     /\ SelectedBackend(answers') = "notion" /\ ~raised')
    => /\ CallsOf(calls', "list_unique_task_titles") # <<>>
       /\ CallsOf(calls', "create_task") = <<>>
       /\ OneReply(out')
       /\ \E j \in 1..Len(out'[1].text.args) :
            out'[1].text.args[j] = <<"0", ".", " ", "N", "e", "w", " ", "T", "i", "t", "l", "e">>

C25_TitlePicker == [][C25_Step]_vars

\* C26: wizard transitions: after the title picker of /todo, a plain-text
\* reply "0" or "i" only moves the wizard on and creates nothing; in Notion
\* mode a task is created only by the plain-text step that supplies the
\* description (or by /todo with the inline separator, see C29).
C26_Step ==
  /\ (Handled /\ PickerShown /\ SaysText(ev') /\ ev'.chat_id = ev.chat_id
        /\ IsDigitStr(Strip(ev'.text)) /\ SelectedBackend(answers') = "notion" /\ ~raised')
       => /\ CallsOf(calls', "create_task") = <<>>
          /\ CallsOf(calls', "create_note") = <<>>
  /\ (Handled /\ SelectedBackend(answers') = "notion" /\ CallsOf(calls', "create_task") # <<>>)
       => \/ SaysText(ev')
          \/ IsTodo(ev') /\ HasSeparator(TodoArg(ev'))

C26_WizardTransitions == [][C26_Step]_vars

\* C27: without Notion there is no wizard: with the relational or the
\* in-memory backend /todo T creates the task in that same call, on that
\* backend, and no conversation state is created for the chat.
C27_Step ==
  (Handled /\ IsTodo(ev') /\ TodoArg(ev') # <<>>
     /\ SelectedBackend(answers') \in {"db", "mem"} /\ ~raised')
    => /\ Len(CallsOf(calls', "create_task")) = 1
       /\ CallsOf(calls', "create_task")[1].backend = SelectedBackend(answers')
       /\ CallsOf(calls', "create_task")[1].text = TodoArg(ev')
       /\ pending' = pending
       /\ OneReply(out')
       /\ out'[1].text.tpl = "Added task: {tid}"
       /\ (SelectedBackend(answers') = "mem"
             => LET c == ev'.chat_id IN
                /\ Len(ListOf(tasks', c)) = Len(ListOf(tasks, c)) + 1
                /\ SubSeq(tasks'[c], 1, Len(ListOf(tasks, c))) = ListOf(tasks, c)
                /\ tasks'[c][Len(tasks'[c])].text = TodoArg(ev')
                /\ ~tasks'[c][Len(tasks'[c])].done
                /\ out'[1].text.args = <<tasks'[c][Len(tasks'[c])].id>>)

C27_NoWizardWithoutNotion == [][C27_Step]_vars

W_C27 ==
  /\ pc = "exec"
  /\ IsTodo(ev)
  /\ SelectedBackend(answers) = "mem"
  /\ ev.chat_id = 1
  /\ ListOf(tasks, 1) # <<>>
  /\ tasks[1][Len(tasks[1])].text = <<"a">>
  /\ OneReply(out)
  /\ out[1].text.tpl = "Added task: {tid}"
  /\ pending = << >>

\* the number of tasks of the chat that are not done
OpenCount(c) == Cardinality({i \in 1..Len(ListOf(tasks, c)) : ~tasks[c][i].done})

\* C28: in in-memory mode /today replies "Open tasks: N", N being the number
\* of that chat's tasks created and not yet marked done, and replies that
\* there are no open tasks when N = 0; tasks of other chats are not counted.
C28_Step ==
  (Handled /\ ev'.type = "message" /\ route_(ev').kind = "command"
     /\ route_(ev').command = "today" /\ SelectedBackend(answers') = "mem")
    => /\ ~raised'
       /\ OneReply(out')
       /\ IF OpenCount(ev'.chat_id) = 0
          THEN out'[1].text.tpl = "No open tasks. Go touch grass"
          ELSE /\ out'[1].text.tpl = "Open tasks: {n}\n{lines}"
               /\ out'[1].text.args[1] = DecStr(OpenCount(ev'.chat_id))
       /\ SameLists(tasks, tasks')

C28_TodayCountsOpenTasks == [][C28_Step]_vars

W_C28 ==
  /\ pc = "exec"
  /\ ev.type = "message"
  /\ route_(ev).command = "today"
  /\ SelectedBackend(answers) = "mem"
  /\ Len(ListOf(tasks, 1)) = 2
  /\ OpenCount(1) = 1
  /\ OneReply(out)
  /\ out[1].text.args[1] = <<"1">>

\* C29: in Notion mode /todo T | D (inline separator) creates exactly one
\* task with title T and description D in the same call and replies
\* "Added: T | D"; no conversation state is created: the wizard is skipped.
C29_Step ==
  (Handled /\ IsTodo(ev') /\ TodoArg(ev') = InlineText
     /\ SelectedBackend(answers') = "notion" /\ answers'.res = "ok" /\ ~raised')
    => /\ Len(CallsOf(calls', "create_task")) = 1
       /\ CallsOf(calls', "create_task")[1].text = <<"a">>
       /\ OneReply(out')
       /\ out'[1].text.args = << <<"a">>, <<"d">> >>
       /\ pending' = pending

C29_InlineSeparatorCreates == [][C29_Step]_vars

\* ------------------------------------------------------------- the router
\* C30: for every text whose command token (after stripping an optional
\* @handle suffix and lowercasing) is note, search or done and whose argument
\* is empty, route_text returns an intent of kind error and never one of kind
\* command; for done with arguments the task reference is the first
\* whitespace-delimited word only.
C30_RouteRequiresArgs ==
  \A lead \in { <<>>, <<" ">> }, n \in RouteNames, h \in RouteHandles, w \in RouteArgs,
     pad \in RoutePads, trail \in { <<>>, <<" ">> } :
    ev.text = ComposeText(lead, n.txt, h, w, pad, trail) =>
      /\ (n.low \in { <<"n", "o", "t", "e">>, <<"s", "e", "a", "r", "c", "h">>, <<"d", "o", "n", "e">> }
            /\ w = <<>>) => ev.route.kind = "error"
      /\ (n.low = <<"d", "o", "n", "e">> /\ w # <<>>)
           => /\ ev.route.kind = "command"
              /\ ev.route.command = <<"d", "o", "n", "e">>
              /\ ev.route.task_id = w[1]

W_C30 ==
  /\ ev.text = ComposeText(<<" ">>, <<"D", "o", "n", "e">>, <<"@", "b">>,
                           << P1, <<"x">>, <<"1">> >>, <<" ", " ">>, <<" ">>)
  /\ ev.route.kind = "command"
  /\ ev.route.task_id = P1

\* C31: route_text classifies the zero-argument forms /todo and /cancel as
\* command intents (command todo with empty text, command cancel), never as
\* error or unknown_command.
C31_ZeroArgCommands ==
  \A lead \in { <<>>, <<" ">> }, n \in RouteNames, h \in RouteHandles, trail \in { <<>>, <<" ">> } :
    (ev.text = ComposeText(lead, n.txt, h, <<>>, <<" ">>, trail)
       /\ n.low \in { <<"t", "o", "d", "o">>, <<"c", "a", "n", "c", "e", "l">> })
      => /\ ev.route.kind = "command"
         /\ ev.route.command = n.low
         /\ ev.route.text = <<>>

\* a pick_done / pick_edit callback of a chat
PickCallback(e) ==
  /\ e.type = "callback" /\ IsInt(e.chat_id)
  /\ e.callback.kind # "error" /\ e.callback.action \in {"pick_done", "pick_edit"}

\* the pick-flow entry a pick callback writes: mode and list message only
PickEntry(e) ==
  [mode |-> IF e.callback.action = "pick_done" THEN "done_pick" ELSE "edit_pick",
   source_message_id |-> e.message_id, task_id |-> <<>>, item_number |-> 0]

PendingWellFormed(p) ==
  \A c \in DOMAIN p :
    /\ p[c].mode \in {"done_pick", "edit_pick", "edit_new_text"}
    /\ IsInt(p[c].source_message_id)
    /\ (p[c].mode = "edit_new_text" => p[c].task_id # <<>> /\ p[c].item_number >= 1)

\* C36: every pending entry has a mode among done_pick, edit_pick and
\* edit_new_text and an integer source_message_id, and an edit_new_text entry
\* has a non-empty task_id and an item_number of at least 1; a pick callback
\* without an integer message id leaves pending as it was; a pick callback
\* with one replaces the chat's entry by the new {mode, source_message_id}.
C36_PendingWellFormed ==
  [][ /\ PendingWellFormed(pending')
      /\ (Handled /\ PickCallback(ev') /\ ~IsInt(ev'.message_id)) => pending' = pending
      /\ (Handled /\ PickCallback(ev') /\ IsInt(ev'.message_id))
           => pending' = Put(pending, ev'.chat_id, PickEntry(ev')) ]_vars

\* a pick callback without a message id was handled while the chat was asked
\* for a new title
W_C36 ==
  /\ pc = "exec" /\ PickCallback(ev) /\ ~IsInt(ev.message_id)
  /\ ev.chat_id \in DOMAIN pending
  /\ pending[ev.chat_id].mode = "edit_new_text"
  /\ pending[ev.chat_id].item_number >= 1

\* an Edit pick replaced the entry of a chat that was being asked for a title
W_C36_Replaced ==
  /\ pc = "exec" /\ PickCallback(ev) /\ IsInt(ev.message_id)
  /\ pending[ev.chat_id] = PickEntry(ev)

\* ------------------------- specification of a pick flow begun after /todo
\* number of requests the history keeps
HistLen == 3

\* /todo with a bare title, the Done button of list message 7, an item
\* number, a free text and /today, all of one chat
BothEvents ==
  { MkEvent("message", 1, 5, <<"/", "c">>,
            [NoRoute EXCEPT !.kind = "command", !.command = "todo", !.text = <<"a">>], NoCallback),
    MkEvent("message", 1, 5, <<"/", "c">>,
            [NoRoute EXCEPT !.kind = "command", !.command = "today"], NoCallback),
    MkEvent("callback", 1, 7, <<>>, NoRoute, [NoCallback EXCEPT !.action = "pick_done"]) }
  \cup
  { MkEvent("message", 1, 5, t, [NoRoute EXCEPT !.kind = "text", !.text = t], NoCallback) :
      t \in { <<"1">>, <<"a">> } }

\* the collaborators answer without exception; a list call returns one task
BothOutcomesFor(e) ==
  { oc \in OutcomesFor(e) :
      /\ oc.res # "raise" /\ oc.init = "ok"
      /\ (IsListEvent(e) => oc.list = <<PoolTask(P1, <<"a">>)>>) }

\* one call of handle_event; the request joins the history
HandleBothEvent ==
  /\ pc = "idle"
  /\ \E e \in BothEvents : \E oc \in BothOutcomesFor(e) : \E r \in {handle_event(e, oc)} :
       /\ r.seq <= MaxSeq
       /\ notes' = r.notes
       /\ tasks' = r.tasks
       /\ seq' = r.seq
       /\ pending' = r.pending
       /\ ev' = e
       /\ out' = r.out
       /\ raised' = r.raised
       /\ calls' = r.calls
       /\ answers' = oc
       /\ pc' = "exec"
       /\ hist' = LastN(Append(hist, [ev |-> e, calls |-> r.calls, answers |-> oc,
                                      raised |-> r.raised]), HistLen)
  /\ UNCHANGED <<render_cache, env, sent>>
  /\ UNCHANGED <<hookvars, jobvars, reqvars, brief>>

NextBoth == HandleBothEvent \/ ExecuteIntents

SpecBoth == Init /\ [][NextBoth]_vars

\* the request opened the task wizard: /todo with a bare title in Notion mode
OpensWizard(h) ==
  /\ IsTodo(h.ev) /\ TodoArg(h.ev) # <<>> /\ ~HasSeparator(TodoArg(h.ev))
  /\ SelectedBackend(h.answers) = "notion" /\ ~h.raised

\* the chat went through /todo <title> and a pick button: it has a wizard
\* entry and a pending entry when the third request arrives
HasBoth ==
  /\ Len(hist) = HistLen /\ pc = "exec"
  /\ OpensWizard(hist[1])
  /\ PickCallback(hist[2].ev) /\ IsInt(hist[2].ev.message_id)
  /\ hist[2].ev.chat_id = hist[1].ev.chat_id
  /\ hist[3].ev.chat_id = hist[1].ev.chat_id

KeyedBy(d, c) == IF c \in DOMAIN d THEN <<d[c]>> ELSE <<>>

C38_Step ==
  (Handled /\ IsInt(ev'.chat_id))
  => /\ \A c \in Chats \ {ev'.chat_id} :
          /\ KeyedBy(notes', c) = KeyedBy(notes, c)
          /\ KeyedBy(tasks', c) = KeyedBy(tasks, c)
          /\ KeyedBy(pending', c) = KeyedBy(pending, c)
     /\ render_cache' = render_cache
     /\ seq' = seq

\* C38: handling an event for chat A changes only the state keyed by A
\* (notes[A], tasks[A], pending[A], render_cache[(A, .)]) and no field shared
\* with other chats, so the ids another chat gets do not depend on A's events.
C38_ChatsIsolated == [][C38_Step]_vars

\* ------------------------------------ specification of the webhook gates
Prod == <<"p", "r", "o", "d">>

\* deployments: with or without a webhook secret, with a valid, an invalid
\* or no allowed user id, strict by APP_ENV, by the flag, or not strict
GateEnvs ==
  { g \in [TELEGRAM_WEBHOOK_SECRET : { <<>>, <<"s">> },
           TELEGRAM_ALLOWED_USER_ID : { <<>>, <<"7">>, <<"x">> },
           APP_ENV : { <<>>, Prod },
           TELEGRAM_STRICT_OWNER_ONLY : { <<>>, <<"1">> }] :
      g.APP_ENV = Prod => g.TELEGRAM_STRICT_OWNER_ONLY = <<>> }

\* the events of the requests: a free text and the Done button
GateEvents ==
  { MkEvent("message", 1, 5, <<"a">>, [NoRoute EXCEPT !.kind = "text", !.text = <<"a">>], NoCallback),
    MkEvent("callback", 1, 7, <<>>, NoRoute, [NoCallback EXCEPT !.action = "pick_done"]) }

\* requests: the secret header, a body that parses or not, the sender's user
\* id, and the callback query id of a button click
Updates ==
  { u \in [hdr : { <<>>, <<"s">>, <<"t">> }, body : {"json", "bad"}, user_id : {7, 8, NoneVal},
           callback_id : { NoCallbackId, <<>>, <<"q">> }, event : GateEvents] :
      /\ (u.event.type # "callback" => u.callback_id = NoCallbackId)
      /\ (u.body = "bad" => u.user_id = NoneVal /\ u.callback_id = NoCallbackId
                              /\ u.event.type = "message" /\ u.event.route.kind = "text") }

expected_hook_secret == Strip(gate.TELEGRAM_WEBHOOK_SECRET)

\* the secret is configured and the header does not carry it
SecretRejects(u) == expected_hook_secret # <<>> /\ Strip(u.hdr) # expected_hook_secret

strict ==
  \/ Lower(gate.APP_ENV) \in { Prod, <<"p", "r", "o", "d", "u", "c", "t", "i", "o", "n">> }
  \/ Lower(Strip(gate.TELEGRAM_STRICT_OWNER_ONLY))
       \in { <<"1">>, <<"t", "r", "u", "e">>, <<"y", "e", "s">> }

\* int(allowed_raw), None when the variable is missing or no number
allowed_user_id ==
  LET allowed_raw == Strip(gate.TELEGRAM_ALLOWED_USER_ID) IN
  IF allowed_raw # <<>> /\ IsDigitStr(allowed_raw) THEN ToInt(allowed_raw) ELSE NoneVal

\* faulty variant: a request without a sender id passes the owner gate
OwnerRejectsKnownOnly(u) ==
  \/ strict /\ allowed_user_id = NoneVal
  \/ allowed_user_id # NoneVal /\ IsInt(u.user_id) /\ u.user_id # allowed_user_id

\* strict mode without an allow-list, or a sender that is not the allowed user
OwnerRejects(u) ==
  \/ strict /\ allowed_user_id = NoneVal
  \/ allowed_user_id # NoneVal /\ (~IsInt(u.user_id) \/ u.user_id # allowed_user_id)

\* the early answer_callback_query of a button click that carries an id
CallbackAck(u) ==
  IF u.event.type = "callback" /\ u.callback_id # NoCallbackId /\ Strip(u.callback_id) # <<>>
  THEN <<"answerCallbackQuery">>
  ELSE <<>>

\* the response of a gate that turns the request away
Unauthorized(type, transport) ==
  [status |-> 200, ok |-> TRUE, type |-> type, unauthorized |-> TRUE, sent |-> 0, errors |-> 0,
   actions |-> <<>>, saved |-> <<>>, transport |-> transport]

\* db.set_setting calls made before handle_event
SavedSettings(e, oc) ==
  IF db_enabled /\ oc.init = "ok"
  THEN (IF IsInt(e.chat_id) THEN <<"telegram_chat_id">> ELSE <<>>)
         \o (IF allowed_user_id # NoneVal THEN <<"telegram_allowed_user_id">> ELSE <<>>)
  ELSE <<>>

\* the transport calls of the intents, in order
RECURSIVE TransportCalls(_, _)
TransportCalls(actions, k) ==
  IF k > Len(actions) THEN <<>>
  ELSE (IF actions[k].type = "edit" THEN <<"editMessageText">>
        ELSE IF actions[k].type = "reply" THEN <<"sendMessage">>
        ELSE <<>>) \o TransportCalls(actions, k + 1)

CountType(actions, type) == Len(SelectSeq(actions, LAMBDA a : a.type = type))

\* the response after the intents were executed
Served(e, actions, tx, saved, ack) ==
  [status |-> 200, ok |-> TRUE, type |-> e.type, unauthorized |-> FALSE,
   sent |-> IF tx.send = "ok" THEN CountType(actions, "reply") ELSE 0,
   errors |-> (IF tx.send = "ok" THEN 0 ELSE CountType(actions, "reply"))
                + (IF tx.edit = "ok" THEN 0 ELSE CountType(actions, "edit")),
   actions |-> actions, saved |-> saved, transport |-> ack \o TransportCalls(actions, 1)]

\* the deployment's environment is set before the first request
Configure ==
  /\ gate = NoGate /\ upd = NoUpdate
  /\ gate' \in GateEnvs \ {NoGate}
  /\ UNCHANGED <<corevars, hist, upd, resp, jobvars, reqvars, brief>>

\* a request turned away by the secret check, a body that does not parse, or
\* the owner gate
WebhookRejects ==
  /\ pc = "idle"
  /\ \E u \in Updates :
       /\ upd' = u
       /\ resp' = IF SecretRejects(u) THEN Unauthorized("unauthorized", <<>>)
                  ELSE IF u.body = "bad"
                  THEN [NoResponse EXCEPT !.status = 400]
                  ELSE Unauthorized(u.event.type, CallbackAck(u))
       /\ SecretRejects(u) \/ u.body = "bad" \/ OwnerRejects(u)
  /\ UNCHANGED <<corevars, hist, gate, jobvars, reqvars, brief>>

\* a request that passes the gates: handle_event and the execution of its intents
WebhookServes ==
  /\ pc = "idle"
  /\ \E u \in Updates :
       /\ ~SecretRejects(u) /\ u.body = "json" /\ ~OwnerRejects(u)
       /\ upd' = u
       /\ \E oc \in OutcomesFor(u.event) : \E r \in {handle_event(u.event, oc)} :
            /\ r.seq <= MaxSeq
            /\ notes' = r.notes
            /\ tasks' = r.tasks
            /\ seq' = r.seq
            /\ pending' = r.pending
            /\ ev' = u.event
            /\ out' = r.out
            /\ raised' = r.raised
            /\ calls' = r.calls
            /\ answers' = oc
            /\ \E tx \in TransportsFor(r.out) :
                 /\ sent' = tx
                 /\ render_cache' = IF r.raised THEN render_cache
                                    ELSE ExecIntents(render_cache, 1, r.out, tx)
                 /\ resp' = IF r.raised
                            THEN [NoResponse EXCEPT !.status = 500,
                                                    !.saved = SavedSettings(u.event, oc),
                                                    !.transport = CallbackAck(u)]
                            ELSE Served(u.event, r.out, tx, SavedSettings(u.event, oc),
                                        CallbackAck(u))
  /\ UNCHANGED <<env, pc, hist, gate, jobvars, reqvars, brief>>

NextGate == Configure \/ WebhookRejects \/ WebhookServes

SpecGate == Init /\ [][NextGate]_vars

\* a step that answers a request
Answered == pc = "idle" /\ gate' = gate /\ upd' \in Updates

\* the configured secret is not the one the request's header carries
SecretMismatch(u) ==
  Present(gate.TELEGRAM_WEBHOOK_SECRET) /\ Strip(u.hdr) # Strip(gate.TELEGRAM_WEBHOOK_SECRET)

\* TELEGRAM_ALLOWED_USER_ID holds a number
ValidOwner ==
  Present(gate.TELEGRAM_ALLOWED_USER_ID) /\ IsDigitStr(Strip(gate.TELEGRAM_ALLOWED_USER_ID))

\* the sender is not the configured owner
NotOwner(u) ==
  ValidOwner /\ (u.user_id = NoneVal \/ u.user_id # ToInt(Strip(gate.TELEGRAM_ALLOWED_USER_ID)))

StrictMode == gate.APP_ENV = Prod \/ gate.TELEGRAM_STRICT_OWNER_ONLY = <<"1">>

\* the owner gate turns the parsed update away
OwnerGateRejects(u) ==
  ~SecretMismatch(u) /\ u.body = "json" /\ (NotOwner(u) \/ (StrictMode /\ ~ValidOwner))

MessageCalls(log) == SelectSeq(log, LAMBDA x : x \in {"sendMessage", "editMessageText"})

C32_Step ==
  (Answered /\ (SecretMismatch(upd') \/ OwnerGateRejects(upd')))
  => /\ resp'.status = 200 /\ resp'.ok /\ resp'.unauthorized
     /\ resp'.sent = 0 /\ resp'.actions = <<>>
     /\ MessageCalls(resp'.transport) = <<>>
     /\ UNCHANGED <<ev, out, raised, calls, answers>>
     /\ UNCHANGED <<notes, tasks, seq, pending, render_cache>>

\* C32: a request whose secret-token header does not match the configured
\* secret, whose sender is not the configured allowed user, or that arrives
\* in strict mode without a valid allowed user id is answered ok with
\* unauthorized, sent = 0 and no actions; handle_event is not called, no
\* message is sent or edited and the conversation state is unchanged.
C32_GatesTurnAway == [][C32_Step]_vars

\* a request of a stranger was turned away after the owner had a note captured
W_C32 ==
  /\ resp.unauthorized /\ upd.user_id = 8 /\ upd.body = "json"
  /\ allowed_user_id = 7 /\ ~SecretRejects(upd)
  /\ 1 \in DOMAIN notes /\ Len(notes[1]) >= 1
  /\ ev.type = "message"

\* C40: for an update the owner gate rejects, the webhook makes no call to
\* the chat transport of any kind, answerCallbackQuery included.
C40_RejectedNoTransport ==
  [][ (Answered /\ OwnerGateRejects(upd')) => resp'.transport = <<>> ]_vars

\* ------------------------------------ specification of the daily brief
\* limit_per_section: int = 5
limit_per_section == 5

\* "due": None
NoDue == <<"None">>

\* dates are written with one digit: "2" is the day 2, "1T0" a datetime on
\* day 1, "x" no date
BriefDues == { NoDue, <<" ">>, <<"1">>, <<"2">>, <<"3">>, <<"1", "T", "0">>, <<"x">> }

BriefStatuses ==
  { <<>>, <<"D", "o", "n", "e">>, <<"d", "o", "i", "n", "g">>,
    <<"i", "n", " ", "p", "r", "o", "g", "r", "e", "s", "s">>,
    <<"i", "n", "-", "p", "r", "o", "g", "r", "e", "s", "s">>,
    <<"c", "o", "m", "p", "l", "e", "t", "e">> }

\* the i-th task of a fetched list
BriefTask(i, due, status) ==
  [id |-> <<"t">> \o DecStr(i), title |-> <<"t">> \o DecStr(i), due |-> due, status |-> status]

\* what notion.list_inbox_tasks (or db.list_open_tasks) returns: every list
\* of up to two tasks, one list with a task for each section and a done one,
\* and one list longer than a section shows
BriefLists ==
  { <<>> }
  \cup { <<BriefTask(1, d, st)>> : d \in BriefDues, st \in BriefStatuses }
  \cup { <<BriefTask(1, d1, s1), BriefTask(2, d2, s2)>> :
           d1 \in BriefDues, s1 \in BriefStatuses, d2 \in BriefDues, s2 \in BriefStatuses }
  \cup { << BriefTask(1, <<"1">>, <<>>), BriefTask(2, <<"2">>, <<>>),
            BriefTask(3, <<"1">>, <<"d", "o", "i", "n", "g">>), BriefTask(4, NoDue, <<>>),
            BriefTask(5, <<"1">>, <<"D", "o", "n", "e">>), BriefTask(6, <<"3">>, <<>>) >>,
         [i \in 1..7 |-> BriefTask(i, <<"1">>, <<>>)] }

\* the days the brief is built on
BriefDays == {2, 3}

BriefOutcomes ==
  [ res : {"ok", "raise"}, list : BriefLists, init : {"ok", "raise"},
    s_notes : { <<>>, <<"x">> }, s_tasks : { <<>>, <<"x">> } ]

BriefOutcomesFor ==
  { oc \in BriefOutcomes :
      /\ (~db_enabled => oc.init = "ok")
      /\ (~(LoadsSettings /\ notion_token # <<>> /\ oc.init = "ok")
            => oc.s_notes = <<>> /\ oc.s_tasks = <<>>)
      /\ (~notion_enabled(oc) => oc.res = "ok")
      /\ (~notion_enabled(oc) /\ ~db_enabled => oc.list = <<>>)
      /\ (~notion_enabled(oc) /\ db_enabled /\ oc.init = "raise" => oc.list = <<>>)
      /\ (oc.res = "raise" => oc.list = <<>>) }

\* s.replace(a, b) for one-character a and b
ReplaceChar(str, a, b) == [i \in 1..Len(str) |-> IF str[i] = a THEN b ELSE str[i]]

\* _parse_due: the day, or None
_parse_due(due_val) ==
  IF due_val = NoDue THEN NoneVal
  ELSE LET s0 == Strip(due_val)
           d == SubSeq(s0, 1, IndexOf(s0, "T", 1) - 1)
       IN
       IF s0 = <<>> THEN NoneVal
       ELSE IF Len(d) = 1 /\ d[1] \in Digits THEN DigitVal(d[1])
       ELSE NoneVal

\* _norm_status
_norm_status(v) ==
  LET s0 == Lower(Strip(IF v = <<>> THEN <<"t", "o", "d", "o">> ELSE v)) IN
  ReplaceChar(ReplaceChar(s0, "-", "_"), " ", "_")

\* _clean_title
_clean_title(v) ==
  IF Strip(v) = <<>> THEN <<"(", "u", "n", "t", "i", "t", "l", "e", "d", ")">> ELSE Strip(v)

\* _fmt_task_line: f"{idx}. {title}{due_txt}"
_fmt_task_line(idx, t) ==
  DecStr(idx) \o <<".", " ">> \o _clean_title(t.title)
    \o (IF _parse_due(t.due) # NoneVal
        THEN <<" ", "(", "d", "u", "e", " ">> \o DecStr(_parse_due(t.due)) \o <<")">>
        ELSE <<>>)

\* _section: the count, up to limit_per_section lines, and the number left out
_section(title, items) ==
  LET show == SubSeq(items, 1, IF Len(items) > limit_per_section
                               THEN limit_per_section ELSE Len(items))
  IN
  [title |-> title, count |-> Len(items),
   lines |-> [i \in 1..Len(show) |-> _fmt_task_line(i, show[i])],
   more |-> IF Len(items) > Len(show) THEN Len(items) - Len(show) ELSE 0]

DoneLikeStatus ==
  { <<"d", "o", "n", "e">>, <<"c", "o", "m", "p", "l", "e", "t", "e", "d">>,
    <<"c", "o", "m", "p", "l", "e", "t", "e">> }

DoingLikeStatus ==
  { <<"d", "o", "i", "n", "g">>, <<"i", "n", "_", "p", "r", "o", "g", "r", "e", "s", "s">>,
    <<"i", "n", "p", "r", "o", "g", "r", "e", "s", "s">> }

\* faulty variant: the due date is looked at before the status
BucketDueFirst(t, today) ==
  LET st == _norm_status(t.status)
      d == _parse_due(t.due)
  IN
  IF st \in DoneLikeStatus THEN "skip"
  ELSE IF d # NoneVal /\ d < today THEN "overdue"
  ELSE IF d # NoneVal /\ d = today THEN "due_today"
  ELSE IF st \in DoingLikeStatus THEN "doing"
  ELSE "no_due"

\* the list a fetched task is appended to in "for t in tasks"
Bucket(t, today) ==
  LET st == _norm_status(t.status)
      d == _parse_due(t.due)
  IN
  IF st \in DoneLikeStatus THEN "skip"
  ELSE IF st \in DoingLikeStatus THEN "doing"
  ELSE IF d = NoneVal THEN "no_due"
  ELSE IF d < today THEN "overdue"
  ELSE IF d = today THEN "due_today"
  ELSE "no_due"

BucketItems(list, today, b) == SelectSeq(list, LAMBDA t : Bucket(t, today) = b)

\* the flat list of the fallback modes: rows carry their text as title
OpenSection(count, tail) ==
  LET show == SubSeq(tail, 1, IF Len(tail) > limit_per_section
                              THEN limit_per_section ELSE Len(tail))
  IN
  [title |-> "Open tasks", count |-> count,
   lines |-> [i \in 1..Len(show) |->
                DecStr(i) \o <<".", " ">> \o _clean_title(show[i].title)],
   more |-> IF Len(tail) > limit_per_section THEN Len(tail) - limit_per_section ELSE 0]

MemRows(list) == [i \in 1..Len(list) |-> [title |-> list[i].text]]

\* build_daily_brief_text(chat_id, state, today=today); the result is kept
\* as header date, mode and sections in place of the joined text
build_daily_brief_text(c, today, oc) ==
  IF notion_enabled(oc)
  THEN IF oc.res = "raise"
       THEN [mode |-> "raised", today |-> today, fetched |-> <<>>, sections |-> <<>>]
       ELSE IF oc.list = <<>>
       THEN [mode |-> "empty", today |-> today, fetched |-> <<>>, sections |-> <<>>]
       ELSE [mode |-> "notion", today |-> today, fetched |-> oc.list,
             sections |-> << _section("Overdue", BucketItems(oc.list, today, "overdue")),
                             _section("Due Today", BucketItems(oc.list, today, "due_today")),
                             _section("Doing", BucketItems(oc.list, today, "doing")),
                             _section("No Due Date / Next Up",
                                      BucketItems(oc.list, today, "no_due")) >>]
  ELSE IF db_enabled
  THEN LET open_tasks == IF oc.init = "raise" THEN <<>> ELSE oc.list IN
       IF open_tasks = <<>>
       THEN [mode |-> "empty", today |-> today, fetched |-> <<>>, sections |-> <<>>]
       ELSE [mode |-> "open", today |-> today, fetched |-> open_tasks,
             sections |-> << OpenSection(Len(open_tasks), open_tasks) >>]
  ELSE LET open_tasks == SelectSeq(ListOf(tasks, c), LAMBDA t : ~t.done) IN
       IF open_tasks = <<>>
       THEN [mode |-> "empty", today |-> today, fetched |-> <<>>, sections |-> <<>>]
       ELSE [mode |-> "open", today |-> today, fetched |-> <<>>,
             sections |-> << OpenSection(Len(open_tasks), MemRows(LastN(open_tasks, 20))) >>]

\* the daily job builds the brief of chat 1, once in a behaviour
BuildBrief ==
  /\ pc = "idle" /\ brief = NoBrief
  /\ \E today \in BriefDays : \E oc \in BriefOutcomesFor :
       /\ brief' = build_daily_brief_text(1, today, oc)
       /\ tasks' = IF ~notion_enabled(oc) /\ ~db_enabled THEN SetDefault(tasks, 1) ELSE tasks
  /\ UNCHANGED <<notes, seq, render_cache, pending, env, ev, out, raised, calls, answers, sent, pc>>
  /\ UNCHANGED <<hist, hookvars, jobvars, reqvars>>

\* the chat adds a task
BriefEvents ==
  { MkEvent("message", 1, 5, <<"/", "c">>,
            [NoRoute EXCEPT !.kind = "command", !.command = "todo", !.text = <<"a">>], NoCallback) }

HandleBriefEvent == HandleEventIn(BriefEvents)

NextBrief == BuildBrief \/ HandleBriefEvent \/ ExecuteIntents

SpecBrief == Init /\ [][NextBrief]_vars

\* the status of the fetched task is done-like / doing-like
DoneLike(t) == t.status \in { <<"D", "o", "n", "e">>, <<"c", "o", "m", "p", "l", "e", "t", "e">> }

DoingLike(t) ==
  t.status \in { <<"d", "o", "i", "n", "g">>,
                 <<"i", "n", " ", "p", "r", "o", "g", "r", "e", "s", "s">>,
                 <<"i", "n", "-", "p", "r", "o", "g", "r", "e", "s", "s">> }

\* the day the task is due, 0 when it has no due date
DueDay(t) ==
  CASE t.due \in { <<"1">>, <<"1", "T", "0">> } -> 1
    [] t.due = <<"2">> -> 2
    [] t.due = <<"3">> -> 3
    [] OTHER -> 0

\* the section the task belongs to
SectionOf(t, today) ==
  IF DoneLike(t) THEN "none"
  ELSE IF DoingLike(t) THEN "Doing"
  ELSE IF DueDay(t) = 0 \/ DueDay(t) > today THEN "No Due Date / Next Up"
  ELSE IF DueDay(t) < today THEN "Overdue"
  ELSE "Due Today"

\* C34: in Notion mode the sections of the daily brief partition the fetched
\* tasks: a task with a done-like status is in no section, every other task
\* in exactly one: Doing when its status is doing-like whatever its due date;
\* otherwise Overdue when due before today, Due Today when due today, and
\* No-Due/Next-Up when it has no due date or a future one.
C34_BriefPartition ==
  brief.mode = "notion"
  => /\ \A i \in 1..Len(brief.fetched) :
          Cardinality({ k \in 1..Len(brief.sections) :
                          brief.sections[k].title = SectionOf(brief.fetched[i], brief.today) })
            = IF DoneLike(brief.fetched[i]) THEN 0 ELSE 1
     /\ \A k \in 1..Len(brief.sections) :
          LET sec == brief.sections[k]
              members == SelectSeq(brief.fetched,
                                   LAMBDA t : SectionOf(t, brief.today) = sec.title)
          IN /\ sec.count = Len(members)
             /\ Len(sec.lines) + sec.more = Len(members)
             /\ \A i \in 1..Len(sec.lines) :
                  HasPrefix(sec.lines[i], DecStr(i) \o <<".", " ">> \o members[i].title)

\* a brief with a task in each section, a doing task that is overdue and a
\* done task
W_C34 ==
  /\ brief.mode = "notion" /\ brief.today = 2 /\ Len(brief.fetched) = 6
  /\ \E i \in 1..6 : DoneLike(brief.fetched[i])
  /\ \E i \in 1..6 : DoingLike(brief.fetched[i]) /\ DueDay(brief.fetched[i]) = 1
  /\ \A k \in 1..4 : brief.sections[k].count >= 1

\* --------------------------------------- specification of the job queue
JobIds == {1, 2}  \* the rows enqueue_job inserts, in creation order
MaxNow == 2      \* ticks of the clock
MaxRetry == 1    \* retry_count a job may reach

JobTypes == {"a", "b"}

\* the types argument of claim_next_job: None and [] are the empty set, ""
\* is a blank entry
TypeArgs == { {}, {"a"}, {"b", ""} }

\* the backoff_seconds argument of mark_job_failed
Backoffs == {0 - 1, 0, 1}

\* type_list: the stripped non-empty entries, None (the empty set) when
\* there is none
type_list(types) == types \ {""}

\* WHERE status = 'queued' AND run_after <= now [AND type = ANY(type_list)]
Due(j, tl) ==
  /\ jobs[j].status = "queued"
  /\ jobs[j].run_after <= now
  /\ (tl # {} => jobs[j].type \in tl)

\* faulty variant: rows locked by another transaction are not skipped
UnlockedAny(j, w) == TRUE

\* SKIP LOCKED: no other worker's open transaction holds the row
Unlocked(j, w) == \A v \in Workers \ {w} : ~(wk[v].pc = "selected" /\ wk[v].row = j)

\* faulty variant: ORDER BY created_at only
BeforeCreated(j, k) == j <= k

\* ORDER BY run_after ASC, created_at ASC: rows are kept in creation order
Before(j, k) ==
  \/ jobs[j].run_after < jobs[k].run_after
  \/ jobs[j].run_after = jobs[k].run_after /\ j <= k

\* the rows the SELECT of worker w can return
Candidates(w, tl) == { j \in 1..Len(jobs) : Due(j, tl) /\ Unlocked(j, w) }

\* LIMIT 1
FirstRow(cand) == CHOOSE j \in cand : \A k \in cand : Before(j, k)

\* the record of a job queue call: who called what with which arguments,
\* and what it returned so far
JobCall(w, op, types, backoff, res) ==
  << [w |-> w, op |-> op, types |-> types, backoff |-> backoff, res |-> res] >>

\* enqueue_job(job_type, payload, run_after)
Enqueue ==
  /\ Len(jobs) + 1 \in JobIds
  /\ \E ty \in JobTypes : \E ra \in {now, now + 1} :
       jobs' = Append(jobs, [type |-> ty, status |-> "queued", run_after |-> ra,
                             retry_count |-> 0])
  /\ UNCHANGED <<corevars, hist, hookvars, wk, now, reqvars, brief>>

\* claim_next_job: SELECT ... FOR UPDATE SKIP LOCKED LIMIT 1; without a row
\* the transaction is rolled back and None returned
ClaimSelect ==
  /\ \E w \in Workers : \E types \in TypeArgs :
       /\ wk[w].pc = "idle" /\ wk[w].job = NoneVal
       /\ LET cand == Candidates(w, type_list(types)) IN
          IF cand = {}
          THEN /\ wk' = wk
               /\ hist' = JobCall(w, "claim_next_job", types, 0, "None")
          ELSE /\ wk' = [wk EXCEPT ![w] = [@ EXCEPT !.pc = "selected", !.row = FirstRow(cand)]]
               /\ hist' = JobCall(w, "claim_next_job", types, 0, "")
  /\ UNCHANGED <<corevars, hookvars, jobs, now, reqvars, brief>>

\* claim_next_job: UPDATE ... SET status = 'running'; commit; return the job
ClaimCommit ==
  /\ \E w \in Workers :
       /\ wk[w].pc = "selected"
       /\ jobs' = [jobs EXCEPT ![wk[w].row].status = "running"]
       /\ wk' = [wk EXCEPT ![w] = [@ EXCEPT !.pc = "idle", !.row = NoneVal, !.job = wk[w].row]]
       /\ hist' = JobCall(w, "claim_next_job", {}, 0, "job")
  /\ UNCHANGED <<corevars, hookvars, now, reqvars, brief>>

\* claim_next_job: an exception after the SELECT rolls the transaction back
ClaimAborts ==
  /\ \E w \in Workers :
       /\ wk[w].pc = "selected"
       /\ wk' = [wk EXCEPT ![w] = [@ EXCEPT !.pc = "idle", !.row = NoneVal]]
       /\ hist' = JobCall(w, "claim_next_job", {}, 0, "raise")
  /\ UNCHANGED <<corevars, hookvars, jobs, now, reqvars, brief>>

\* mark_job_done(job_id) by the worker that runs the job
MarkDone ==
  /\ \E w \in Workers :
       /\ wk[w].pc = "idle" /\ wk[w].job # NoneVal
       /\ jobs' = [jobs EXCEPT ![wk[w].job].status = "done"]
       /\ wk' = [wk EXCEPT ![w].job = NoneVal]
       /\ hist' = JobCall(w, "mark_job_done", {}, 0, "")
  /\ UNCHANGED <<corevars, hookvars, now, reqvars, brief>>

\* mark_job_failed(job_id, error, backoff_seconds) by the worker that runs the job
MarkFailed ==
  /\ \E w \in Workers : \E backoff_seconds \in Backoffs :
       /\ wk[w].pc = "idle" /\ wk[w].job # NoneVal
       /\ jobs[wk[w].job].retry_count < MaxRetry
       /\ jobs' = [jobs EXCEPT ![wk[w].job] =
                     [@ EXCEPT !.status = "queued",
                               !.retry_count = @ + 1,
                               !.run_after = now + (IF backoff_seconds < 0 THEN 0
                                                    ELSE backoff_seconds)]]
       /\ wk' = [wk EXCEPT ![w].job = NoneVal]
       /\ hist' = JobCall(w, "mark_job_failed", {}, backoff_seconds, "")
  /\ UNCHANGED <<corevars, hookvars, now, reqvars, brief>>

\* time passes
Tick ==
  /\ now < MaxNow
  /\ now' = now + 1
  /\ UNCHANGED <<corevars, hist, hookvars, jobs, wk, reqvars, brief>>

NextJobs == Enqueue \/ ClaimSelect \/ ClaimCommit \/ ClaimAborts \/ MarkDone \/ MarkFailed \/ Tick

SpecJobs == Init /\ [][NextJobs]_vars

\* the job is queued and its time has come
DueQueued(j) == jobs[j].status = "queued" /\ jobs[j].run_after <= now

\* another worker's claim in progress has the row locked
LockedByOther(j, w) == \E v \in Workers \ {w} : wk[v].pc = "selected" /\ wk[v].row = j

\* the step begins a claim_next_job call of worker w
ClaimBy(w) ==
  /\ wk[w].pc = "idle" /\ wk[w].job = NoneVal
  /\ hist' # <<>> /\ hist'[1].w = w /\ hist'[1].op = "claim_next_job"
  /\ hist'[1].res \in {"None", ""}

\* the step returns a job to worker w
ReturnedTo(w) == wk[w].pc = "selected" /\ wk'[w].job # NoneVal

C33_Step ==
  /\ \A w \in Workers : \A v \in Workers \ {w} :
       wk'[w].job # NoneVal => wk'[v].job # wk'[w].job /\ wk'[v].row # wk'[w].job
  /\ \A w \in Workers :
       ReturnedTo(w) => /\ jobs[wk'[w].job].status = "queued"
                        /\ jobs'[wk'[w].job].status = "running"
  /\ \A w \in Workers :
       (ClaimBy(w) /\ (\E j \in 1..Len(jobs) : DueQueued(j))
          /\ \A j \in 1..Len(jobs) : DueQueued(j) => LockedByOther(j, w))
       => /\ hist'[1].res = "None"
          /\ wk'[w] = wk[w]

\* C33: under any interleaving of concurrent claim_next_job calls a queued
\* job is returned to at most one worker, it has status running when it is
\* returned, and a worker that finds the only due job locked by another
\* claim gets None: it neither waits nor receives the same job.
C33_ClaimExclusive == [][C33_Step]_vars

\* a worker got None while the only due job was locked by the claim of another
W_C33 ==
  /\ hist # <<>> /\ hist[1].op = "claim_next_job" /\ hist[1].res = "None"
  /\ \E j \in 1..Len(jobs) : DueQueued(j)
  /\ \A j \in 1..Len(jobs) : DueQueued(j) => LockedByOther(j, hist[1].w)

\* the job is of a requested type
Requested(j, types) == types \ {""} = {} \/ jobs[j].type \in types

\* job j comes no later than job k in the queue's order
NoLater(j, k) ==
  \/ jobs[j].run_after < jobs[k].run_after
  \/ jobs[j].run_after = jobs[k].run_after /\ j <= k

\* the step selects a job for worker w
SelectedBy(w) == wk[w].pc = "idle" /\ wk'[w].pc = "selected"

\* the step is mark_job_failed of worker w
FailedBy(w) ==
  /\ wk[w].job # NoneVal /\ wk'[w].job = NoneVal
  /\ jobs'[wk[w].job].status = "queued"

\* what the claim says of every step but the choice among the due jobs
C39_Lifecycle ==
  /\ \A j \in 1..Len(jobs) : jobs[j].status = "done" => jobs'[j].status = "done"
  /\ \A j \in 1..Len(jobs) :
       (jobs[j].status = "running" /\ jobs'[j].status # "running")
         => \E w \in Workers : wk[w].job = j /\ wk'[w].job = NoneVal
  /\ \A w \in Workers :
       SelectedBy(w) => /\ DueQueued(wk'[w].row)
                        /\ Requested(wk'[w].row, hist'[1].types)
  /\ \A w \in Workers :
       FailedBy(w)
         => /\ jobs'[wk[w].job].retry_count = jobs[wk[w].job].retry_count + 1
            /\ (hist'[1].backoff >= 0
                  => jobs'[wk[w].job].run_after = now + hist'[1].backoff)

C39_OriginalStep ==
  /\ C39_Lifecycle
  /\ \A w \in Workers :
       SelectedBy(w)
         => \A k \in 1..Len(jobs) :
              (DueQueued(k) /\ Requested(k, hist'[1].types)) => NoLater(wk'[w].row, k)

\* C39 as stated: a job returned by claim_next_job is not returned again
\* while it is running or after mark_job_done; mark_job_failed puts it back
\* to queued with retry_count + 1 and run_after = now + backoff_seconds, and
\* it is not claimable before that time; among the due queued jobs of the
\* requested types a claim returns the one with the earliest run_after, ties
\* by creation order.
C39_JobLifecycleAsStated == [][C39_OriginalStep]_vars

C39_AmendedStep ==
  /\ C39_Lifecycle
  /\ \A w \in Workers :
       SelectedBy(w)
         => \A k \in 1..Len(jobs) :
              (DueQueued(k) /\ Requested(k, hist'[1].types) /\ ~LockedByOther(k, w))
                => NoLater(wk'[w].row, k)

\* C39 amended: as stated, but the job a claim returns is the earliest among
\* the due queued jobs of the requested types that no other claim in
\* progress has locked.
C39_JobLifecycle == [][C39_AmendedStep]_vars

\* a job that failed once is running again, claimed past an earlier-created job
W_C39 ==
  \E w \in Workers :
    /\ wk[w].job = 2
    /\ jobs[2].status = "running" /\ jobs[2].retry_count = 1
    /\ jobs[1].status = "queued" /\ jobs[1].run_after > jobs[2].run_after

\* ------------------------------- specification of two requests in flight
\* telegram_webhook is a coroutine of the server's event loop: it gives the
\* loop away at `await request.json()` only; handle_event and the sends and
\* edits of the intents are plain calls
\* faulty variant: the loop is given away after handle_event, as if the sends
\* were awaited
YieldLoop(r) == 0

\* who has the event loop once handle_event has returned
HoldLoop(r) == r

\* the request arrives: the coroutine runs up to `await request.json()`
Arrive(r) ==
  /\ loop = 0
  /\ req[r].pc = "new"
  /\ req' = [req EXCEPT ![r].pc = "await"]
  /\ loop' = 0
  /\ UNCHANGED <<corevars, hist, hookvars, jobvars, brief>>

\* the body is there: the coroutine resumes and calls handle_event
Resume(r) ==
  /\ loop = 0
  /\ req[r].pc = "await"
  /\ \E e \in ListEvents : \E oc \in ListOutcomesFor(e) : \E h \in {handle_event(e, oc)} :
       /\ h.seq <= MaxSeq
       /\ notes' = h.notes
       /\ tasks' = h.tasks
       /\ seq' = h.seq
       /\ pending' = h.pending
       /\ req' = [req EXCEPT ![r] = [pc |-> "exec", ev |-> e, out |-> h.out,
                                      raised |-> h.raised]]
  /\ loop' = HoldLoop(r)
  /\ UNCHANGED <<render_cache, env, ev, out, raised, calls, answers, sent, pc>>
  /\ UNCHANGED <<hist, hookvars, jobvars, brief>>

\* the coroutine executes the intents of its event and returns the response
Execute(r) ==
  /\ loop \in {0, r}
  /\ req[r].pc = "exec"
  /\ \E tx \in ListTransportsFor(req[r].out) :
       render_cache' = IF req[r].raised THEN render_cache
                       ELSE ExecIntents(render_cache, 1, req[r].out, tx)
  /\ req' = [req EXCEPT ![r].pc = "done"]
  /\ loop' = 0
  /\ UNCHANGED <<notes, tasks, seq, pending, env, ev, out, raised, calls, answers, sent, pc>>
  /\ UNCHANGED <<hist, hookvars, jobvars, brief>>

NextConc == \E r \in Requests : Arrive(r) \/ Resume(r) \/ Execute(r)

SpecConc == Init /\ [][NextConc]_vars

\* request r is between the call of handle_event and its last intent
MidHandling(r) == req[r].pc = "exec"

\* the step is one of request r that reads or writes the conversation state
TouchesState(r) == req'[r] # req[r] /\ req'[r].pc \in {"exec", "done"}

C37_Step ==
  /\ \A r \in Requests :
       MidHandling(r)
         => /\ \A q \in Requests \ {r} : ~TouchesState(q)
            /\ (<<pending, render_cache>>' # <<pending, render_cache>> => TouchesState(r))
  /\ \A r \in Requests :
       (TouchesState(r) /\ req[r].pc = "await")
         => \A q \in Requests \ {r} : req[q].pc \in {"new", "await", "done"}
  /\ (<<pending, render_cache>>' # <<pending, render_cache>>)
       => \E r \in Requests : TouchesState(r)

\* C37: from the call of handle_event until the last intent of that event is
\* executed, cache updates included, no other request's handling reads or
\* writes pending or render_cache: the handlings of two requests in flight
\* follow one another whole, in some order.
C37_EventsSerialized == [][C37_Step]_vars

\* a request that left a pending entry is about to execute its intents while
\* the other request in flight waits for its body
W_C37 ==
  \E r \in Requests : \E q \in Requests \ {r} :
    /\ MidHandling(r) /\ req[r].out # <<>>
    /\ req[q].pc = "await"
    /\ pending # EmptyDict

====
